---- MODULE Spec2Model ----
(***************************************************************************)
(* Verification model of pdf-to-podcast's control plane:                   *)
(*   - GeminiRateLimiter (rate_limiter.py): acquire, call_with_backoff     *)
(*   - ManifestManager (manifest.py): create / update / save               *)
(*   - PodcastGenerator.run (__main__.py) with the script stage            *)
(*     (script_builder.py) and the audio stage (tts_client.py)             *)
(*   - scripts-to-audio mode, ScriptBuilder.generate_scripts_async and     *)
(*     the TTSChunkProcessor (tts_chunk_processor.py)                      *)
(* The specifications share the variables: SpecAcquire drives acquire with *)
(* concurrent tasks, SpecLimiter drives call_with_backoff, SpecPipeline    *)
(* drives one run of the orchestrator over an output directory left by     *)
(* earlier activity, SpecScriptsToAudio one run of scripts-to-audio mode,  *)
(* SpecGather the gathered script coroutines, SpecSplit the dialogue       *)
(* splitter, SpecChunks chunk synthesis and merging, SpecBackoff the       *)
(* backoff delays over configurations, SpecManifest single calls on a      *)
(* loaded manifest, SpecInterrupt a run with the SIGINT handler, SpecTts   *)
(* one audio call with its retries, SpecScript one script call with its    *)
(* validation, SpecScriptWrite a run in which writing a script file may    *)
(* fail, SpecPacing the pauses of the sequential audio stage, and          *)
(* SpecRetry call_with_backoff under a fair event loop.                    *)
(***************************************************************************)
EXTENDS Integers, Sequences, FiniteSets, TLC

VARIABLES
    \* ---- rate limiter (SpecLimiter) ----
    now,            \* time.time(), in ticks of 0.1 s
    request_times,  \* GeminiRateLimiter.request_times
    lock,           \* GeminiRateLimiter.lock: 0 = free, else the holding task
    jitter,         \* RateLimitConfig.jitter
    tpc,            \* per task: position inside call_with_backoff / acquire
    twake,          \* per task: instant at which its asyncio.sleep ends
    attempt,        \* per task: loop variable of call_with_backoff
    calls,          \* per task: invocations of func in the current call
    sleeps,         \* per task: backoff sleeps in the current call
    seen,           \* per task: classes of the outcomes of func in the current call
    last_exception, \* per task: last_exception of call_with_backoff ("none" = None)
    result,         \* per task: what the current call returned or raised
    started,        \* number of calls begun (acquire or call_with_backoff)
    returns,        \* the latest rpm_limit + 1 instants at which acquire() returned
    lapses,         \* coarse lapses of time so far
    \* ---- orchestrator, manifest and disk (SpecPipeline) ----
    pc,             \* position of PodcastGenerator.run
    exit_code,      \* value returned by run (-1 while running)
    skip_existing,  \* args.skip_existing
    secnum,         \* section_number of each extracted section
    pdf_dirname,    \* self.pdf_dirname (0 until chosen)
    manifest,       \* ManifestManager._manifest (in memory)
    disk,           \* manifest.json on disk
    script_files,   \* script files on disk: set of <<dirname, item>>
    audio_files,    \* audio files on disk: set of <<dirname, item>>
    clock,          \* datetime.now(), strictly increasing per reading
    idx,            \* loop index of the current stage
    section_scripts,\* result of _generate_section_scripts: items, in order
    audio_paths,    \* result of generate_section_audios_async: items, in order
    script_calls,   \* per item: calls of model.generate_content
    tts_calls,      \* per item: calls of TTSClient.generate_audio
    script_out,     \* per item: how generate_section_script ended
    audio_out,      \* per item: how process_section ended
    last_update,    \* return value of the latest update_section ("none" before)
    prior,          \* the manifest entries found on disk when the run started
    \* ---- scripts-to-audio mode (SpecScriptsToAudio) ----
    missing,        \* missing_audio_files: items with a script and no audio, in order
    processed,      \* the counter "processed" of run_scripts_to_audio
    \* ---- a stage run under asyncio.gather and a semaphore (SpecGather) ----
    max_concurrency,\* the configured max_concurrency
    semaphore,      \* permits left in asyncio.Semaphore(actual_concurrency)
    gpc,            \* per task: position inside process_chapter
    warned,         \* the clamp warning was logged
    \* ---- TTSChunkProcessor (SpecSplit, SpecChunks) ----
    dialogue_lines, \* argument of split_dialogue_for_tts
    chunks,         \* the chunks: result of the split / argument of processing
    split_pc,       \* "input" before split_dialogue_for_tts is applied, "split" after
    natural_splits, \* number of natural split points the split used
    NUMPY_AVAILABLE,\* module flag of tts_chunk_processor
    cpc,            \* position inside process_chunks_sequentially / merge
    synth,          \* per chunk: outcome of generate_audio_with_timeout
    audio_chunks,   \* audio_chunks of process_chunks_sequentially
    merged,         \* result of merge_audio_chunks
    \* ---- _calculate_backoff_delay over configurations (SpecBackoff) ----
    config,         \* RateLimitConfig of the limiter under test
    b_attempt,      \* attempt index of the latest computation (-1 before)
    b_delay,        \* [rate, server]: delays computed for b_attempt
    b_prev,         \* [rate, server]: delays computed for b_attempt - 1
    \* ---- single calls on one component (SpecManifest, SpecTts, SpecScript) ----
    summary,        \* result of the latest get_progress_summary
    lecture_content,\* the lecture text handed to / produced by the call
    requests,       \* external requests the call has issued, in order
    returned,       \* the latest call, its arguments and what it returned or raised
    \* ---- pacing of synthesis calls, in seconds (SpecPacing, SpecChunks) ----
    since_request,  \* time since the latest synthesis request was issued (-1: none yet)
    request_gap,    \* time between the latest two synthesis requests (-1: fewer than two)
    item_gap        \* time from the end of the latest item's call to the next item (-1: none yet)

taskVars == <<tpc, twake, attempt, calls, sleeps, seen, last_exception, result,
              started>>
limVars == <<now, request_times, lock, jitter, returns, lapses, taskVars>>
pipeVars == <<pc, exit_code, skip_existing, secnum, pdf_dirname, manifest, disk,
              script_files, audio_files, clock, idx, section_scripts, audio_paths, script_calls, tts_calls,
              script_out, audio_out, last_update, prior>>
s2aVars == <<missing, processed>>
gatherVars == <<max_concurrency, semaphore, gpc, warned>>
splitVars == <<dialogue_lines, chunks, split_pc, natural_splits>>
chunkVars == <<NUMPY_AVAILABLE, cpc, synth, audio_chunks, merged>>
backoffVars == <<config, b_attempt, b_delay, b_prev>>
unitVars == <<summary, lecture_content, requests, returned>>
paceVars == <<since_request, request_gap, item_gap>>
auxVars == <<s2aVars, gatherVars, splitVars, chunkVars, backoffVars, unitVars,
             paceVars>>
vars == <<limVars, pipeVars, auxVars>>

(***************************************************************************)
(* Bounds of the model                                                     *)
(***************************************************************************)
NumTasks == 3      \* concurrent callers of acquire() on one limiter
MaxAcquires == 5   \* direct acquire() calls in all (SpecAcquire)
MaxCalls == 2      \* successive call_with_backoff calls (SpecLimiter)
MaxLapses == 2     \* lapses of time with nothing scheduled

NumItems == 3      \* sections extracted from the PDF (SpecPipeline)

Tasks == 1..NumTasks
Items == 1..NumItems
Caller == 1        \* the task that runs call_with_backoff in SpecLimiter

(***************************************************************************)
(* Rate limiter configuration (the test fixture's RateLimitConfig)         *)
(***************************************************************************)
TICKS == 10                 \* ticks per second: the code's smallest quantum is 0.1 s
WINDOW == 60 * TICKS        \* the trailing window, 60.0 s
rpm_limit == 2
max_retries == 2
base_delay == 1 * TICKS
max_delay == 60 * TICKS
SERVER_CAP == 10 * TICKS    \* the 10.0 ceiling of server-error delays
MIN_DELAY == 1              \* 0.1 s

Min(a, b) == IF a < b THEN a ELSE b
Max(a, b) == IF a > b THEN a ELSE b
RECURSIVE Pow2(_)
Pow2(n) == IF n = 0 THEN 1 ELSE 2 * Pow2(n - 1)
RECURSIVE SeqMin(_)
SeqMin(s) == IF Len(s) = 1 THEN s[1] ELSE Min(s[1], SeqMin(Tail(s)))

(***************************************************************************)
(* Errors raised by the wrapped operation.  An error is its message; the   *)
(* code classifies by substring search in the lower-cased message.         *)
(***************************************************************************)
RATE_INDICATORS == {"429", "rate limit", "quota", "too many requests"}
SERVER_INDICATORS == {"500", "502", "503", "504", "server error"}

Errors == {"429 rate limit", "500 server error", "503 quota backend",
           "invalid input"}

\* the indicator substrings that occur in a message
Substrings(e) ==
    CASE e = "429 rate limit"    -> {"429", "rate limit"}
      [] e = "500 server error"  -> {"500", "server error"}
      [] e = "503 quota backend" -> {"503", "quota"}
      [] OTHER                   -> {}

IsRateLimitError(e) == Substrings(e) \cap RATE_INDICATORS # {}
IsServerError(e) == ~IsRateLimitError(e) /\ Substrings(e) \cap SERVER_INDICATORS # {}

RATE_LIMIT_EXCEEDED == "Rate limit exceeded: Maximum retries reached"

\* the class of an outcome of the wrapped operation
ClassOf(o) ==
    IF o = "ok" THEN "ok"
    ELSE IF IsRateLimitError(o) THEN "rate"
    ELSE IF IsServerError(o) THEN "server"
    ELSE "other"

(***************************************************************************)
(* _calculate_backoff_delay: the set of delays it can return               *)
(***************************************************************************)
BaseBackoff(att, is_server_error) ==
    IF is_server_error
    THEN Min(base_delay * Pow2(att), SERVER_CAP)
    ELSE Min(base_delay * Pow2(att), max_delay)

BackoffDelays(att, is_server_error, jit) ==
    LET d == BaseBackoff(att, is_server_error)
        j == d \div 10
    IN  IF jit
        THEN {Max(d + x, MIN_DELAY) : x \in {-j, 0, j}}
        ELSE {Max(d, MIN_DELAY)}

(***************************************************************************)
(* acquire(): the pieces of its body                                       *)
(***************************************************************************)
Pruned(times, t) == LET Recent(x) == x > t - WINDOW IN SelectSeq(times, Recent)

AtLimitOffByOne(times) == Len(times) > rpm_limit
AtLimit(times) == Len(times) >= rpm_limit

WaitTime(times, t) == WINDOW - (t - SeqMin(times))

InWindow(times, t) == {i \in 1..Len(times) : times[i] > t - WINDOW}

(***************************************************************************)
(* SpecLimiter: tasks calling call_with_backoff on one GeminiRateLimiter   *)
(***************************************************************************)
NoPath == <<0, 0>>     \* None, for script_path and audio_path
NoManifest == [loaded |-> FALSE, updated_at |-> 0, entries |-> <<>>]
NoFile == [state |-> "absent", updated_at |-> 0, entries |-> <<>>]

PipeIdle ==
    /\ pc = "off" /\ exit_code = -1 /\ skip_existing = FALSE
    /\ secnum = <<>> /\ pdf_dirname = 0
    /\ manifest = NoManifest
    /\ disk = NoFile
    /\ script_files = {} /\ audio_files = {} /\ clock = 0 /\ idx = 0
    /\ section_scripts = <<>> /\ audio_paths = <<>>
    /\ script_calls = {} /\ tts_calls = {} /\ script_out = <<>>
    /\ audio_out = <<>> /\ last_update = "none"
    /\ prior = <<>>

S2AIdle == missing = <<>> /\ processed = 0
GatherIdle ==
    /\ max_concurrency = 1 /\ semaphore = 0 /\ warned = FALSE
    /\ gpc = [t \in Tasks |-> "off"]
SplitIdle ==
    /\ dialogue_lines = <<>> /\ chunks = <<>> /\ split_pc = "off"
    /\ natural_splits = 0
ChunkIdle ==
    /\ NUMPY_AVAILABLE = TRUE /\ cpc = "off" /\ synth = <<>>
    /\ audio_chunks = <<>> /\ merged = <<>>
BackoffIdle ==
    /\ config = [base_delay |-> base_delay, max_delay |-> max_delay, jitter |-> FALSE]
    /\ b_attempt = -1
    /\ b_delay = [rate |-> 0, server |-> 0]
    /\ b_prev = [rate |-> 0, server |-> 0]
UnitIdle ==
    /\ summary = [type |-> "none"] /\ lecture_content = 0 /\ requests = <<>>
    /\ returned = [call |-> "none"]
PaceIdle == since_request = -1 /\ request_gap = -1 /\ item_gap = -1
AuxIdle ==
    /\ S2AIdle /\ GatherIdle /\ SplitIdle /\ ChunkIdle /\ BackoffIdle
    /\ UnitIdle /\ PaceIdle

InitLimiter ==
    /\ now = 0
    /\ request_times = <<>>
    /\ lock = 0
    /\ jitter = FALSE
    /\ tpc = [t \in Tasks |-> "idle"]
    /\ twake = [t \in Tasks |-> 0]
    /\ attempt = [t \in Tasks |-> 0]
    /\ calls = [t \in Tasks |-> 0]
    /\ sleeps = [t \in Tasks |-> 0]
    /\ seen = [t \in Tasks |-> {}]
    /\ last_exception = [t \in Tasks |-> "none"]
    /\ result = [t \in Tasks |-> "none"]
    /\ started = 0
    /\ returns = <<>>
    /\ lapses = 0
    /\ PipeIdle
    /\ AuxIdle

\* a task calls acquire() directly
CallAcquire(t) ==
    /\ tpc[t] = "idle"
    /\ started < MaxAcquires
    /\ started' = started + 1
    /\ tpc' = [tpc EXCEPT ![t] = "acquire"]
    /\ UNCHANGED <<now, request_times, lock, jitter, returns, lapses, twake,
                   attempt, calls, sleeps, seen, last_exception, result,
                   pipeVars, auxVars>>

\* acquire() returns to its direct caller
AcquireReturn(t) ==
    /\ tpc[t] = "acquired"
    /\ tpc' = [tpc EXCEPT ![t] = "idle"]
    /\ UNCHANGED <<now, request_times, lock, jitter, returns, lapses, twake,
                   attempt, calls, sleeps, seen, last_exception, result,
                   started, pipeVars, auxVars>>

\* call_with_backoff is entered: last_exception = None, attempt = 0
CallWithBackoff(t) ==
    /\ tpc[t] \in {"idle", "done"}
    /\ started < MaxCalls
    /\ started' = started + 1
    /\ attempt' = [attempt EXCEPT ![t] = 0]
    /\ calls' = [calls EXCEPT ![t] = 0]
    /\ sleeps' = [sleeps EXCEPT ![t] = 0]
    /\ seen' = [seen EXCEPT ![t] = {}]
    /\ last_exception' = [last_exception EXCEPT ![t] = "none"]
    /\ result' = [result EXCEPT ![t] = "none"]
    /\ tpc' = [tpc EXCEPT ![t] = "acquire"]
    /\ UNCHANGED <<now, request_times, lock, jitter, returns, lapses, twake,
                   pipeVars, auxVars>>

\* acquire(), from taking the lock to the sleep (or to the append when no
\* sleep is due): now is read, old entries are dropped, the limit is tested
AcquireEnter(t) ==
    /\ tpc[t] = "acquire"
    /\ lock = 0
    /\ lock' = t
    /\ LET kept == Pruned(request_times, now)
       IN  /\ request_times' = kept
           /\ IF AtLimit(kept) /\ WaitTime(kept, now) > 0
              THEN /\ tpc' = [tpc EXCEPT ![t] = "acq_sleep"]
                   /\ twake' = [twake EXCEPT ![t] = now + WaitTime(kept, now)]
              ELSE /\ tpc' = [tpc EXCEPT ![t] = "acq_record"]
                   /\ UNCHANGED twake
    /\ UNCHANGED <<now, jitter, returns, lapses, attempt, calls, sleeps, seen,
                   last_exception, result, started, pipeVars, auxVars>>

\* asyncio.sleep(wait_time) inside acquire ends
AcquireWake(t) ==
    /\ tpc[t] = "acq_sleep"
    /\ now >= twake[t]
    /\ twake' = [twake EXCEPT ![t] = 0]
    /\ tpc' = [tpc EXCEPT ![t] = "acq_record"]
    /\ UNCHANGED <<now, request_times, lock, jitter, returns, lapses,
                   attempt, calls, sleeps, seen, last_exception, result, started,
                   pipeVars, auxVars>>

\* the latest n elements of a sequence
LastN(s, n) == IF Len(s) <= n THEN s ELSE SubSeq(s, Len(s) - n + 1, Len(s))

\* request_times.append(time.time()); the lock is released; acquire returns
AcquireRecord(t) ==
    /\ tpc[t] = "acq_record"
    /\ request_times' = Append(request_times, now)
    /\ returns' = LastN(Append(returns, now), rpm_limit + 1)
    /\ lock' = 0
    /\ tpc' = [tpc EXCEPT ![t] = "acquired"]
    /\ UNCHANGED <<now, jitter, lapses, twake, attempt, calls, sleeps, seen,
                   last_exception, result, started, pipeVars, auxVars>>

\* variants of Handling with one branch of the except clause altered
HandlingRateReraises(e, a) ==
    IF (IsRateLimitError(e) \/ IsServerError(e))
    THEN IF a < max_retries THEN "retry" ELSE e
    ELSE e
HandlingServerNoRetry(e, a) ==
    IF IsRateLimitError(e)
    THEN IF a < max_retries THEN "retry" ELSE RATE_LIMIT_EXCEEDED
    ELSE e
HandlingRetriesAll(e, a) ==
    IF IsRateLimitError(e)
    THEN IF a < max_retries THEN "retry" ELSE RATE_LIMIT_EXCEEDED
    ELSE IF a < max_retries THEN "retry" ELSE e
HandlingOneMoreRetry(e, a) ==
    IF IsRateLimitError(e)
    THEN IF a <= max_retries THEN "retry" ELSE RATE_LIMIT_EXCEEDED
    ELSE IF IsServerError(e)
         THEN IF a <= max_retries THEN "retry" ELSE e
         ELSE e

\* what the except clause of call_with_backoff does with error e at attempt a:
\* "retry" (sleep, then continue) or the exception that leaves the call
Handling(e, a) ==
    IF IsRateLimitError(e)
    THEN IF a < max_retries THEN "retry" ELSE RATE_LIMIT_EXCEEDED
    ELSE IF IsServerError(e)
         THEN IF a < max_retries THEN "retry" ELSE e
         ELSE e

\* func(*args) is called and returns a value
InvokeOk(t) ==
    /\ tpc[t] = "acquired"
    /\ calls' = [calls EXCEPT ![t] = @ + 1]
    /\ seen' = [seen EXCEPT ![t] = @ \cup {"ok"}]
    /\ result' = [result EXCEPT ![t] = "value"]
    /\ tpc' = [tpc EXCEPT ![t] = "done"]
    /\ UNCHANGED <<now, request_times, lock, jitter, returns, lapses, twake,
                   attempt, sleeps, last_exception, started, pipeVars, auxVars>>

\* func(*args) is called and raises e
InvokeError(t, e) ==
    /\ tpc[t] = "acquired"
    /\ calls' = [calls EXCEPT ![t] = @ + 1]
    /\ seen' = [seen EXCEPT ![t] = @ \cup {ClassOf(e)}]
    /\ last_exception' = [last_exception EXCEPT ![t] = e]
    /\ IF Handling(e, attempt[t]) = "retry"
       THEN /\ \E d \in BackoffDelays(attempt[t], IsServerError(e), jitter) :
                 twake' = [twake EXCEPT ![t] = now + d]
            /\ sleeps' = [sleeps EXCEPT ![t] = @ + 1]
            /\ tpc' = [tpc EXCEPT ![t] = "backoff"]
            /\ UNCHANGED result
       ELSE /\ result' = [result EXCEPT ![t] = Handling(e, attempt[t])]
            /\ tpc' = [tpc EXCEPT ![t] = "done"]
            /\ UNCHANGED <<twake, sleeps>>
    /\ UNCHANGED <<now, request_times, lock, jitter, returns, lapses, attempt,
                   started, pipeVars, auxVars>>

\* asyncio.sleep(delay) ends; continue: the next iteration of the loop
BackoffWake(t) ==
    /\ tpc[t] = "backoff"
    /\ now >= twake[t]
    /\ attempt' = [attempt EXCEPT ![t] = @ + 1]
    /\ twake' = [twake EXCEPT ![t] = 0]
    /\ tpc' = [tpc EXCEPT ![t] = "acquire"]
    /\ UNCHANGED <<now, request_times, lock, jitter, returns, lapses,
                   calls, sleeps, seen, last_exception, result, started, pipeVars, auxVars>>

\* time passes up to the end of a pending sleep
Sleeping(t) == tpc[t] \in {"acq_sleep", "backoff"}
AdvanceToWake ==
    /\ \E t \in Tasks :
          /\ Sleeping(t)
          /\ twake[t] > now
          /\ now' = twake[t]
    /\ UNCHANGED <<request_times, lock, jitter, returns, lapses, taskVars,
                   pipeVars, auxVars>>

\* time passes with nothing scheduled (the operation takes long, the caller
\* is busy elsewhere): half a window
Lapse ==
    /\ lapses < MaxLapses
    /\ lapses' = lapses + 1
    /\ now' = now + (WINDOW \div 2)
    /\ UNCHANGED <<request_times, lock, jitter, returns, taskVars, pipeVars, auxVars>>

\* SpecAcquire: tasks call acquire() directly, concurrently
NextAcquire ==
    \/ \E t \in Tasks : CallAcquire(t)
    \/ \E t \in Tasks : AcquireEnter(t)
    \/ \E t \in Tasks : AcquireWake(t)
    \/ \E t \in Tasks : AcquireRecord(t)
    \/ \E t \in Tasks : AcquireReturn(t)
    \/ AdvanceToWake
    \/ Lapse

SpecAcquire == InitLimiter /\ [][NextAcquire]_vars

\* SpecLimiter: one caller runs call_with_backoff, several times in a row
NextLimiter ==
    \/ CallWithBackoff(Caller)
    \/ AcquireEnter(Caller)
    \/ AcquireWake(Caller)
    \/ AcquireRecord(Caller)
    \/ InvokeOk(Caller)
    \/ \E e \in Errors : InvokeError(Caller, e)
    \/ BackoffWake(Caller)
    \/ AdvanceToWake
    \/ Lapse

SpecLimiter == InitLimiter /\ [][NextLimiter]_vars

\* SpecRetry: the calls of SpecLimiter, each run to its end: the event loop
\* keeps running the coroutine, so an awaited sleep ends and an awaited
\* acquire() or func() returns or raises
NextRetry ==
    \/ CallWithBackoff(Caller)
    \/ AcquireEnter(Caller)
    \/ AcquireWake(Caller)
    \/ AcquireRecord(Caller)
    \/ InvokeOk(Caller)
    \/ \E e \in Errors : InvokeError(Caller, e)
    \/ BackoffWake(Caller)
    \/ AdvanceToWake

SpecRetry == InitLimiter /\ [][NextRetry]_vars /\ WF_vars(NextRetry)

(***************************************************************************)
(* Manifest (manifest.py)                                                  *)
(***************************************************************************)
Statuses == {"pending", "script_generated", "audio_generated", "completed",
             "failed", "failed_rate_limit"}
FailureStatuses == {"failed", "failed_rate_limit"}
TerminalStatuses == {"completed"} \cup FailureStatuses

\* A SectionInfo as _setup_section_manifest builds it: status PENDING, no
\* paths, no error, created_at / updated_at None (0), text_chars the length
\* of the source text.
NewEntry(sn) ==
    [section_number |-> sn, status |-> "pending", script_path |-> NoPath,
     audio_path |-> NoPath, text_chars |-> "source_len", error_message |-> "",
     updated_at |-> 0]

\* index of the first entry whose section_number is sn, 0 when there is none
FirstMatch(entries, sn) ==
    LET hits == {i \in 1..Len(entries) : entries[i].section_number = sn}
    IN  IF hits = {} THEN 0 ELSE CHOOSE i \in hits : \A j \in hits : i <= j

\* update_section applied to the entries: only the supplied fields change
\* ("" / NoPath stand for an omitted argument), updated_at is stamped
ApplyUpdateOverwrite(entry, status, script_path, audio_path, text_chars, error_message, t) ==
    [entry EXCEPT
        !.status = status, !.script_path = script_path,
        !.audio_path = audio_path, !.text_chars = text_chars,
        !.error_message = error_message, !.updated_at = t]
ApplyUpdate(entry, status, script_path, audio_path, text_chars, error_message, t) ==
    [entry EXCEPT
        !.status = IF status # "" THEN status ELSE @,
        !.script_path = IF script_path # NoPath THEN script_path ELSE @,
        !.audio_path = IF audio_path # NoPath THEN audio_path ELSE @,
        !.text_chars = IF text_chars # "" THEN text_chars ELSE @,
        !.error_message = IF error_message # "" THEN error_message ELSE @,
        !.updated_at = t]

UpdateSection(entries, sn, status, script_path, audio_path, text_chars, error_message, t) ==
    LET j == FirstMatch(entries, sn)
    IN  IF j = 0 THEN entries
        ELSE [entries EXCEPT ![j] =
                ApplyUpdate(@, status, script_path, audio_path, text_chars,
                            error_message, t)]

\* the file json.dump writes for manifest m
FileOf(m) == [state |-> "complete", updated_at |-> m.updated_at, entries |-> m.entries]
\* the file left when the write fails after open(..., 'w') truncated it
Truncated == [state |-> "partial", updated_at |-> 0, entries |-> <<>>]

\* save(): the write of manifest.json.  It succeeds, or json.dump raises
\* after open(..., 'w') has truncated the file; the exception is caught and
\* logged, and save returns normally either way.
Persist(m) == disk' \in {FileOf(m), Truncated}

(***************************************************************************)
(* Stage calls                                                             *)
(***************************************************************************)
\* errors of the external services, one per class
PipeErrors == {"429 rate limit", "500 server error", "invalid input"}

TTS_MAX_RETRIES == 3
FAILED_RATE_LIMIT_MSG == "failed_rate_limit"

\* the except clause of generate_audio_with_retry
TtsIsRateLimit(e) == Substrings(e) \cap {"429", "rate limit", "quota"} # {}
TtsIsServer(e) == ~TtsIsRateLimit(e) /\ Substrings(e) \cap {"500", "502", "503", "504"} # {}
TtsHandling(e, a) ==
    IF TtsIsRateLimit(e)
    THEN IF a < TTS_MAX_RETRIES THEN "retry" ELSE FAILED_RATE_LIMIT_MSG
    ELSE IF TtsIsServer(e)
         THEN IF a < TTS_MAX_RETRIES THEN "retry" ELSE e
         ELSE e

\* what the retry loop of call_with_backoff ends with when the operation
\* raises es[1], es[2], ... on its successive attempts and then returns
RECURSIVE BackoffOutcome(_, _)
BackoffOutcome(es, a) ==
    IF es = <<>> THEN "ok"
    ELSE IF Handling(Head(es), a) = "retry" THEN BackoffOutcome(Tail(es), a + 1)
         ELSE Handling(Head(es), a)

\* the same for the retry loop of generate_audio_with_retry
RECURSIVE TtsOutcome(_, _)
TtsOutcome(es, a) ==
    IF es = <<>> THEN "ok"
    ELSE IF TtsHandling(Head(es), a) = "retry" THEN TtsOutcome(Tail(es), a + 1)
         ELSE TtsHandling(Head(es), a)

\* the error sequences of at most n attempts
ErrSeqs(n) == UNION {[1..k -> PipeErrors] : k \in 0..n}

\* every way generate_section_script can end: "ok" or the exception raised.
\* The call as ScriptBuilder implements it is followed step by step in
\* SpecScript; here a returned script stays among the outcomes, so that the
\* orchestrator's handling of it is covered.
ScriptOutcomes == {BackoffOutcome(es, 0) : es \in ErrSeqs(max_retries + 1)}
\* every way generate_audio_with_retry can end
AudioOutcomes == {TtsOutcome(es, 0) : es \in ErrSeqs(TTS_MAX_RETRIES + 1)}

InSeq(x, s) == \E k \in 1..Len(s) : s[k] = x
Failed(o) == o \notin {"none", "ok", "skipped"}

(***************************************************************************)
(* SpecPipeline: one run of PodcastGenerator.run                           *)
(***************************************************************************)
LimIdle ==
    /\ now = 0 /\ request_times = <<>> /\ lock = 0 /\ jitter = FALSE
    /\ tpc = [t \in Tasks |-> "idle"] /\ twake = [t \in Tasks |-> 0]
    /\ attempt = [t \in Tasks |-> 0] /\ calls = [t \in Tasks |-> 0]
    /\ sleeps = [t \in Tasks |-> 0] /\ seen = [t \in Tasks |-> {}]
    /\ last_exception = [t \in Tasks |-> "none"]
    /\ result = [t \in Tasks |-> "none"] /\ started = 0 /\ returns = <<>>
    /\ lapses = 0

\* The section numbers the structure detector returns: they are taken from
\* the LLM's answer unchecked (missing ones default to ""), so two sections
\* may carry the same number.  Every pattern of equal / distinct numbers.
SecNumChoices ==
    {f \in [Items -> Items] :
        \A i \in Items :
            f[i] <= 1 + Cardinality({f[j] : j \in 1..(i - 1)})}

\* a manifest entry an earlier activity left for item i
PriorEntry(sn, i, done) ==
    IF done
    THEN [section_number |-> sn, status |-> "completed", script_path |-> <<1, i>>,
          audio_path |-> <<1, i>>, text_chars |-> "script_len",
          error_message |-> "", updated_at |-> i]
    ELSE NewEntry(sn)

\* What the output directory holds when the run starts:
\*   "fresh"      nothing;
\*   "run"        a manifest whose first k items are COMPLETED and the rest
\*                PENDING, with the script and audio files of the first k;
\*   "audio_only" audio files of the first k items and nothing else (left by
\*                scripts-to-audio mode with this output directory).
InitPipeline ==
    /\ LimIdle
    /\ AuxIdle
    /\ pc = "start" /\ exit_code = -1
    /\ skip_existing \in BOOLEAN
    /\ secnum \in SecNumChoices
    /\ pdf_dirname = 0
    /\ manifest = NoManifest
    /\ \E kind \in {"fresh", "run", "audio_only"}, k \in 0..NumItems :
          /\ kind = "fresh" => k = 0
          /\ kind = "audio_only" => k > 0
          /\ disk = IF kind = "run"
                    THEN [state |-> "complete", updated_at |-> NumItems,
                          entries |-> [i \in Items |-> PriorEntry(secnum[i], i, i <= k)]]
                    ELSE NoFile
          /\ script_files = IF kind = "run" THEN {<<1, i>> : i \in 1..k} ELSE {}
          /\ audio_files = {<<1, i>> : i \in 1..k}
    /\ prior = disk.entries
    /\ clock = NumItems + 1
    /\ idx = 0
    /\ section_scripts = <<>> /\ audio_paths = <<>>
    /\ script_calls = {}
    /\ tts_calls = {}
    /\ script_out = [i \in Items |-> "none"]
    /\ audio_out = [i \in Items |-> "none"]
    /\ last_update = "none"

\* _get_unique_dirname: the first of <name>, <name>_2 that does not exist
\* under scripts/
UniqueDirname(files) == IF \E i \in Items : <<1, i>> \in files THEN 2 ELSE 1

ChooseDirname ==
    /\ pc = "start"
    /\ pdf_dirname' = UniqueDirname(script_files)
    /\ pc' = "parse"
    /\ UNCHANGED <<limVars, auxVars, exit_code, skip_existing, secnum, manifest, disk,
                   script_files, audio_files, clock, idx, section_scripts, audio_paths, script_calls, tts_calls,
                   script_out, audio_out, last_update, prior>>

\* _parse_pdf_sections returned the sections
ParseSections ==
    /\ pc = "parse"
    /\ pc' = "setup"
    /\ UNCHANGED <<limVars, auxVars, exit_code, skip_existing, secnum, pdf_dirname,
                   manifest, disk, script_files, audio_files, clock, idx,
                   section_scripts, audio_paths, script_calls,
                   tts_calls, script_out, audio_out, last_update, prior>>

\* _parse_pdf_sections returned nothing: run returns 2
ParseEmpty ==
    /\ pc = "parse"
    /\ pc' = "done"
    /\ exit_code' = 2
    /\ UNCHANGED <<limVars, auxVars, skip_existing, secnum, pdf_dirname, manifest, disk,
                   script_files, audio_files, clock, idx, section_scripts, audio_paths, script_calls, tts_calls,
                   script_out, audio_out, last_update, prior>>

\* _setup_section_manifest: create_section_manifest builds a new manifest
\* from the sections (nothing is loaded) and saves it
SetupManifest ==
    /\ pc = "setup"
    /\ manifest' = [loaded |-> TRUE, updated_at |-> clock + 1,
                    entries |-> [i \in Items |-> NewEntry(secnum[i])]]
    /\ clock' = clock + 2
    /\ Persist(manifest')
    /\ pc' = "scripts"
    /\ idx' = 1
    /\ UNCHANGED <<limVars, auxVars, exit_code, skip_existing, secnum, pdf_dirname,
                   script_files, audio_files, section_scripts, audio_paths,
                   script_calls, tts_calls, script_out, audio_out, last_update,
                   prior>>

\* update_section(...): the first entry with this section_number is updated
\* and the manifest saved; nothing happens when there is none
DoUpdate(sn, status, script_path, audio_path, text_chars, error_message) ==
    IF FirstMatch(manifest.entries, sn) # 0
    THEN /\ manifest' = [manifest EXCEPT
                           !.entries = UpdateSection(@, sn, status, script_path,
                                                     audio_path, text_chars,
                                                     error_message, clock),
                           !.updated_at = clock + 1]
         /\ clock' = clock + 2
         /\ Persist(manifest')
         /\ last_update' = "true"
    ELSE /\ last_update' = "false"
         /\ UNCHANGED <<manifest, clock, disk>>

\* the item the script loop turns to after item i failed
AbortAfterFailure(i) == NumItems + 1
AfterScriptFailure(i) == i + 1

\* script stage, item idx: generate_section_script under call_with_backoff
\* ends with o.  On success the script is written and the entry set to
\* SCRIPT_GENERATED; on an exception the entry is set to FAILED with str(e)
\* and the loop goes on.
GenerateSectionScript(o) ==
    /\ pc = "scripts" /\ idx <= NumItems
    /\ script_calls' = script_calls \cup {idx}
    /\ script_out' = [script_out EXCEPT ![idx] = o]
    /\ IF o = "ok"
       THEN /\ script_files' = script_files \cup {<<pdf_dirname, idx>>}
            /\ section_scripts' = Append(section_scripts, idx)
            /\ DoUpdate(secnum[idx], "script_generated", <<pdf_dirname, idx>>,
                        NoPath, "script_len", "")
            /\ idx' = idx + 1
       ELSE /\ DoUpdate(secnum[idx], "failed", NoPath, NoPath, "",
                        o)
            /\ idx' = AfterScriptFailure(idx)
            /\ UNCHANGED <<script_files, section_scripts>>
    /\ UNCHANGED <<limVars, auxVars, pc, exit_code, skip_existing, secnum, pdf_dirname,
                   audio_files, audio_paths, tts_calls, audio_out, prior>>

\* _generate_section_scripts returns section_scripts; the audio stage begins
ScriptsDone ==
    /\ pc = "scripts" /\ idx > NumItems
    /\ pc' = "audio"
    /\ idx' = 1
    /\ UNCHANGED <<limVars, auxVars, exit_code, skip_existing, secnum, pdf_dirname,
                   manifest, disk, script_files, audio_files, clock,
                   section_scripts, audio_paths, script_calls,
                   tts_calls, script_out, audio_out, last_update, prior>>

\* audio stage: the item processed at position idx of section_scripts
AudioItem == section_scripts[idx]

\* process_section: the audio file exists and skip_existing is set
AudioSkip ==
    /\ pc = "audio" /\ idx <= Len(section_scripts)
    /\ skip_existing /\ <<pdf_dirname, AudioItem>> \in audio_files
    /\ audio_out' = [audio_out EXCEPT ![AudioItem] = "skipped"]
    /\ audio_paths' = Append(audio_paths, AudioItem)
    /\ idx' = idx + 1
    /\ UNCHANGED <<limVars, auxVars, pc, exit_code, skip_existing, secnum, pdf_dirname,
                   manifest, disk, script_files, audio_files, clock,
                   section_scripts, script_calls, tts_calls,
                   script_out, last_update, prior>>

\* process_section: generate_audio_with_retry ends with o.  On success the
\* file is written and its path returned; an exception is caught by
\* process_section, which logs it and returns None.
ProcessSection(o) ==
    /\ pc = "audio" /\ idx <= Len(section_scripts)
    /\ ~(skip_existing /\ <<pdf_dirname, AudioItem>> \in audio_files)
    /\ tts_calls' = tts_calls \cup {AudioItem}
    /\ audio_out' = [audio_out EXCEPT ![AudioItem] = o]
    /\ IF o = "ok"
       THEN /\ audio_files' = audio_files \cup {<<pdf_dirname, AudioItem>>}
            /\ audio_paths' = Append(audio_paths, AudioItem)
       ELSE UNCHANGED <<audio_files, audio_paths>>
    /\ idx' = idx + 1
    /\ UNCHANGED <<limVars, auxVars, pc, exit_code, skip_existing, secnum, pdf_dirname,
                   manifest, disk, script_files, clock, section_scripts,
                   script_calls, script_out, last_update, prior>>

\* generate_section_audios_async returns audio_paths
AudioDone ==
    /\ pc = "audio" /\ idx > Len(section_scripts)
    /\ pc' = "audio_update"
    /\ idx' = 1
    /\ UNCHANGED <<limVars, auxVars, exit_code, skip_existing, secnum, pdf_dirname,
                   manifest, disk, script_files, audio_files, clock,
                   section_scripts, audio_paths, script_calls,
                   tts_calls, script_out, audio_out, last_update, prior>>

\* _generate_section_audio: the manifest update for one returned audio path
AudioUpdate ==
    /\ pc = "audio_update" /\ idx <= Len(audio_paths)
    /\ DoUpdate(secnum[audio_paths[idx]], "audio_generated", NoPath,
                <<pdf_dirname, audio_paths[idx]>>, "", "")
    /\ idx' = idx + 1
    /\ UNCHANGED <<limVars, auxVars, pc, exit_code, skip_existing, secnum, pdf_dirname,
                   script_files, audio_files, section_scripts,
                   audio_paths, script_calls, tts_calls, script_out, audio_out,
                   prior>>

\* run prints the summary and returns 0
Finish ==
    /\ pc = "audio_update" /\ idx > Len(audio_paths)
    /\ pc' = "done"
    /\ exit_code' = 0
    /\ UNCHANGED <<limVars, auxVars, skip_existing, secnum, pdf_dirname, manifest, disk,
                   script_files, audio_files, clock, idx, section_scripts, audio_paths, script_calls, tts_calls,
                   script_out, audio_out, last_update, prior>>

NextPipeline ==
    \/ ChooseDirname
    \/ ParseSections
    \/ ParseEmpty
    \/ SetupManifest
    \/ \E o \in ScriptOutcomes : GenerateSectionScript(o)
    \/ ScriptsDone
    \/ AudioSkip
    \/ \E o \in AudioOutcomes : ProcessSection(o)
    \/ AudioDone
    \/ AudioUpdate
    \/ Finish

SpecPipeline == InitPipeline /\ [][NextPipeline]_vars

(***************************************************************************)
(* SpecScriptsToAudio: one run of PodcastGenerator.run_scripts_to_audio    *)
(***************************************************************************)
RECURSIVE SortedSeq(_)
SortedSeq(S) ==
    IF S = {} THEN <<>>
    ELSE LET m == CHOOSE x \in S : \A y \in S : x <= y
         IN  <<m>> \o SortedSeq(S \ {m})

\* get_missing_audio_files: the scripts whose stem has no audio file
MissingAudioFiles(scripts, audios) ==
    SortedSeq({i \in Items : <<1, i>> \in scripts /\ <<1, i>> \notin audios})

\* the test of the except clause in the loop of run_scripts_to_audio
S2AIsRateLimit(e) == Substrings(e) \cap {"429", "rate limit"} # {}

\* a scripts directory holding any of the scripts and an audio directory
\* holding any of the audio files; no manifest is involved
InitScriptsToAudio ==
    /\ LimIdle
    /\ GatherIdle /\ SplitIdle /\ ChunkIdle /\ BackoffIdle /\ UnitIdle /\ PaceIdle
    /\ pc = "s2a_start" /\ exit_code = -1
    /\ skip_existing = FALSE /\ secnum = <<>> /\ pdf_dirname = 1
    /\ manifest = NoManifest /\ disk = NoFile
    /\ \E S \in SUBSET Items : script_files = {<<1, i>> : i \in S}
    /\ \E S \in SUBSET Items : audio_files = {<<1, i>> : i \in S}
    /\ clock = 0 /\ idx = 0
    /\ section_scripts = <<>> /\ audio_paths = <<>>
    /\ script_calls = {} /\ tts_calls = {}
    /\ script_out = [i \in Items |-> "none"]
    /\ audio_out = [i \in Items |-> "none"]
    /\ last_update = "none" /\ prior = <<>>
    /\ missing = <<>> /\ processed = 0

\* the list of missing audio files is computed; with none the run returns 0
S2AStart ==
    /\ pc = "s2a_start"
    /\ missing' = MissingAudioFiles(script_files, audio_files)
    /\ IF missing' = <<>>
       THEN pc' = "done" /\ exit_code' = 0 /\ UNCHANGED idx
       ELSE pc' = "s2a_loop" /\ idx' = 1 /\ UNCHANGED exit_code
    /\ UNCHANGED <<limVars, paceVars, unitVars, gatherVars, splitVars, chunkVars,
                   backoffVars,
                   skip_existing, secnum, pdf_dirname, manifest, disk,
                   script_files, audio_files, clock, section_scripts,
                   audio_paths, script_calls, tts_calls, script_out, audio_out,
                   last_update, prior, processed>>

\* generate_audio returns for the script at position idx and the audio file
\* is written
S2AGenerateOk ==
    /\ pc = "s2a_loop" /\ idx <= Len(missing)
    /\ tts_calls' = tts_calls \cup {missing[idx]}
    /\ audio_files' = audio_files \cup {<<1, missing[idx]>>}
    /\ audio_out' = [audio_out EXCEPT ![missing[idx]] = "ok"]
    /\ processed' = processed + 1
    /\ idx' = idx + 1
    /\ UNCHANGED <<limVars, paceVars, unitVars, gatherVars, splitVars, chunkVars,
                   backoffVars, pc,
                   exit_code, skip_existing, secnum, pdf_dirname, manifest,
                   disk, script_files, clock, section_scripts, audio_paths,
                   script_calls, script_out, last_update, prior, missing>>

\* generate_audio raises e: a 429 / rate-limit message goes to
\* handle_rate_limit_error, which prints the guidance and calls sys.exit(1);
\* any other error is printed and the loop continues
S2AGenerateError(e) ==
    /\ pc = "s2a_loop" /\ idx <= Len(missing)
    /\ tts_calls' = tts_calls \cup {missing[idx]}
    /\ audio_out' = [audio_out EXCEPT ![missing[idx]] = e]
    /\ IF S2AIsRateLimit(e)
       THEN pc' = "done" /\ exit_code' = 1 /\ UNCHANGED idx
       ELSE idx' = idx + 1 /\ UNCHANGED <<pc, exit_code>>
    /\ UNCHANGED <<limVars, paceVars, unitVars, gatherVars, splitVars, chunkVars,
                   backoffVars,
                   skip_existing, secnum, pdf_dirname, manifest, disk,
                   script_files, audio_files, clock, section_scripts,
                   audio_paths, script_calls, script_out, last_update, prior,
                   missing, processed>>

\* the loop is over: the summary is printed and the run returns 0
S2AFinish ==
    /\ pc = "s2a_loop" /\ idx > Len(missing)
    /\ pc' = "done"
    /\ exit_code' = 0
    /\ UNCHANGED <<limVars, auxVars, skip_existing, secnum, pdf_dirname,
                   manifest, disk, script_files, audio_files, clock, idx,
                   section_scripts, audio_paths, script_calls, tts_calls,
                   script_out, audio_out, last_update, prior>>

NextScriptsToAudio ==
    \/ S2AStart
    \/ S2AGenerateOk
    \/ \E e \in Errors : S2AGenerateError(e)
    \/ S2AFinish

SpecScriptsToAudio == InitScriptsToAudio /\ [][NextScriptsToAudio]_vars

(***************************************************************************)
(* SpecGather: ScriptBuilder.generate_scripts_async, whose process_chapter *)
(* coroutines are gathered and run under one semaphore.  Each task is one  *)
(* chapter.                                                                *)
(***************************************************************************)
MaxConcurrency == 3   \* largest max_concurrency a caller passes

\* actual_concurrency, the value the semaphore is built with
actual_concurrency_unclamped(mc) == mc
actual_concurrency(mc) == 1

\* coroutines holding the semaphore / inside generate_lecture_script
Holders == {t \in Tasks : gpc[t] \in {"inside", "call"}}
InFlight == {t \in Tasks : gpc[t] = "call"}
GatherResults == {"script", "skipped", "failed"}

InitGather ==
    /\ LimIdle /\ PipeIdle
    /\ S2AIdle /\ SplitIdle /\ ChunkIdle /\ BackoffIdle /\ UnitIdle /\ PaceIdle
    /\ max_concurrency \in 1..MaxConcurrency
    /\ semaphore = 0
    /\ warned = FALSE
    /\ gpc = [t \in Tasks |-> "new"]

\* the head of generate_scripts_async: the semaphore is created, the warning
\* logged, the coroutines created and handed to asyncio.gather
GatherStart ==
    /\ \A t \in Tasks : gpc[t] = "new"
    /\ semaphore' = actual_concurrency(max_concurrency)
    /\ warned' = (max_concurrency > 1)
    /\ gpc' = [t \in Tasks |-> "waiting"]
    /\ UNCHANGED <<limVars, paceVars, pipeVars, unitVars, s2aVars, splitVars, chunkVars,
                   backoffVars, max_concurrency>>

\* async with semaphore: a permit is taken
GatherEnter(t) ==
    /\ gpc[t] = "waiting"
    /\ semaphore > 0
    /\ semaphore' = semaphore - 1
    /\ gpc' = [gpc EXCEPT ![t] = "inside"]
    /\ UNCHANGED <<limVars, paceVars, pipeVars, unitVars, s2aVars, splitVars, chunkVars,
                   backoffVars, max_concurrency, warned>>

\* skip_existing and the script file exists: return None, permit released
GatherSkip(t) ==
    /\ gpc[t] = "inside"
    /\ semaphore' = semaphore + 1
    /\ gpc' = [gpc EXCEPT ![t] = "skipped"]
    /\ UNCHANGED <<limVars, paceVars, pipeVars, unitVars, s2aVars, splitVars, chunkVars,
                   backoffVars, max_concurrency, warned>>

\* await self.generate_lecture_script(...): the external call is in flight
GatherCall(t) ==
    /\ gpc[t] = "inside"
    /\ gpc' = [gpc EXCEPT ![t] = "call"]
    /\ UNCHANGED <<limVars, paceVars, pipeVars, unitVars, s2aVars, splitVars, chunkVars,
                   backoffVars, max_concurrency, warned, semaphore>>

\* the call returns a script (saved, returned) or raises (logged, None);
\* either way the permit is released
GatherReturn(t, r) ==
    /\ gpc[t] = "call"
    /\ semaphore' = semaphore + 1
    /\ gpc' = [gpc EXCEPT ![t] = r]
    /\ UNCHANGED <<limVars, paceVars, pipeVars, unitVars, s2aVars, splitVars, chunkVars,
                   backoffVars, max_concurrency, warned>>

\* gather has every result: the scripts are collected and returned
GatherCollect ==
    /\ \A t \in Tasks : gpc[t] \in GatherResults
    /\ gpc' = [t \in Tasks |-> IF gpc[t] = "script" THEN "collected" ELSE "dropped"]
    /\ UNCHANGED <<limVars, paceVars, pipeVars, unitVars, s2aVars, splitVars, chunkVars,
                   backoffVars, max_concurrency, warned, semaphore>>

NextGather ==
    \/ GatherStart
    \/ \E t \in Tasks : GatherEnter(t)
    \/ \E t \in Tasks : GatherSkip(t)
    \/ \E t \in Tasks : GatherCall(t)
    \/ \E t \in Tasks : \E r \in {"script", "failed"} : GatherReturn(t, r)
    \/ GatherCollect

SpecGather == InitGather /\ [][NextGather]_vars

(***************************************************************************)
(* SpecSplit: TTSChunkProcessor.split_dialogue_for_tts applied to a        *)
(* dialogue.  A line is its speaker, the length of its text and whether    *)
(* the text ends in one of the natural endings.                            *)
(***************************************************************************)
MAX_CHUNK_LINES == 15
MAX_CHUNK_CHARS == 1200
PREFERRED_CHUNK_LINES == 12
PREFERRED_CHUNK_CHARS == 1000
CHECK_RANGE == 5

MaxScriptLines == 4   \* lines of a dialogue with lines of any kind
MaxLongLines == 17    \* lines of a dialogue of short lines

Speakers == {"Host", "Guest"}
CharChoices == {500, 700, 900}
ShortLineChars == 50
OversizedChars == 1500   \* a line that alone exceeds MAX_CHUNK_CHARS
MaxOversizedLines == 2   \* lines of a dialogue that may hold such lines
LineKinds == [speaker : Speakers, chars : CharChoices, ending : BOOLEAN]
BigLineKinds ==
    [speaker : Speakers, chars : CharChoices \cup {OversizedChars},
     ending : BOOLEAN]

\* dialogues of short lines, long enough to reach the line limits: one
\* speaker or alternating speakers, every text ending naturally or none
LongScripts ==
    {[k \in 1..n |->
        [speaker |-> IF alt /\ k % 2 = 0 THEN "Guest" ELSE "Host",
         chars |-> ShortLineChars, ending |-> e]] :
        n \in (PREFERRED_CHUNK_LINES + 1)..MaxLongLines, alt \in BOOLEAN,
        e \in BOOLEAN}

\* short dialogues in which a line may be oversized
OversizedScripts == UNION {[1..n -> BigLineKinds] : n \in 1..MaxOversizedLines}

Scripts ==
    UNION {[1..n -> LineKinds] : n \in 0..MaxScriptLines}
        \cup LongScripts \cup OversizedScripts

\* sum(len(line["text"]) for line in lines)
RECURSIVE TotalChars(_)
TotalChars(lines) ==
    IF lines = <<>> THEN 0 ELSE Head(lines).chars + TotalChars(Tail(lines))

\* _is_natural_ending
IsNaturalEnding(line) == line.ending

\* _find_natural_split_point: among the last CHECK_RANGE positions i >= 1
\* (0-based) the first one where the speaker changes and the line before
\* ends naturally; len(current_chunk) if there is none.  Position i of the
\* code is element i + 1 here.
FindNaturalSplitPoint(current_chunk) ==
    LET n == Len(current_chunk)
        check_range == IF CHECK_RANGE < n THEN CHECK_RANGE ELSE n
        found == {i \in (n - check_range)..(n - 1) :
                     /\ i > 0
                     /\ current_chunk[i + 1].speaker # current_chunk[i].speaker
                     /\ IsNaturalEnding(current_chunk[i])}
    IN  IF found = {} THEN n
        ELSE CHOOSE i \in found : \A j \in found : i <= j

\* the loop of split_dialogue_for_tts from line i on, and the final append
RECURSIVE SplitLoop(_, _, _, _, _)
SplitLoop(lines, i, done, current_chunk, nat) ==
    IF i > Len(lines)
    THEN [chunks |-> IF current_chunk # <<>> THEN Append(done, current_chunk)
                     ELSE done,
          natural |-> nat]
    ELSE
        LET line == lines[i]
            will_exceed_lines == Len(current_chunk) + 1 > MAX_CHUNK_LINES
            will_exceed_chars ==
                TotalChars(current_chunk) + line.chars > MAX_CHUNK_CHARS
            split_point == FindNaturalSplitPoint(current_chunk)
        IN  IF current_chunk # <<>> /\ (will_exceed_lines \/ will_exceed_chars)
            THEN IF split_point # Len(current_chunk)
                 THEN SplitLoop(lines, i + 1,
                          Append(done, SubSeq(current_chunk, 1, split_point)),
                          Append(SubSeq(current_chunk, split_point + 1,
                                        Len(current_chunk)), line),
                          nat + 1)
                 ELSE SplitLoop(lines, i + 1, Append(done, current_chunk),
                                <<line>>, nat)
            ELSE SplitLoop(lines, i + 1, done, Append(current_chunk, line), nat)

\* split_dialogue_for_tts: the chunks, and how many natural split points
\* were used
SplitDialogueForTtsUnsplit(lines) == [chunks |-> <<lines>>, natural |-> 0]
SplitDialogueForTtsNoFinalAppend(lines) ==
    IF Len(lines) <= PREFERRED_CHUNK_LINES
       /\ TotalChars(lines) <= PREFERRED_CHUNK_CHARS
    THEN [chunks |-> <<lines>>, natural |-> 0]
    ELSE LET r == SplitLoop(lines, 1, <<>>, <<>>, 0)
         IN  [chunks |-> SubSeq(r.chunks, 1, Len(r.chunks) - 1),
              natural |-> r.natural]
SplitDialogueForTts(lines) ==
    IF Len(lines) <= PREFERRED_CHUNK_LINES
       /\ TotalChars(lines) <= PREFERRED_CHUNK_CHARS
    THEN [chunks |-> <<lines>>, natural |-> 0]
    ELSE SplitLoop(lines, 1, <<>>, <<>>, 0)

InitSplit ==
    /\ LimIdle /\ PipeIdle
    /\ S2AIdle /\ GatherIdle /\ ChunkIdle /\ BackoffIdle /\ UnitIdle /\ PaceIdle
    /\ dialogue_lines \in Scripts
    /\ chunks = <<>>
    /\ split_pc = "input"
    /\ natural_splits = 0

SplitDialogue ==
    /\ split_pc = "input"
    /\ chunks' = SplitDialogueForTts(dialogue_lines).chunks
    /\ natural_splits' = SplitDialogueForTts(dialogue_lines).natural
    /\ split_pc' = "split"
    /\ UNCHANGED <<limVars, paceVars, pipeVars, unitVars, s2aVars, gatherVars, chunkVars,
                   backoffVars, dialogue_lines>>

NextSplit == SplitDialogue

SpecSplit == InitSplit /\ [][NextSplit]_vars

(***************************************************************************)
(* SpecChunks: TTSChunkProcessor.process_chunks_sequentially followed by   *)
(* merge_audio_chunks, as process_large_dialogue chains them.  Audio data  *)
(* is a sequence of tokens: a WAV file is a header token, which carries    *)
(* the number of frame tokens, followed by its frame tokens; anything else *)
(* is not a WAV file.                                                      *)
(***************************************************************************)
MaxChunks == 3   \* chunks handed to process_chunks_sequentially
CHUNK_DELAY == 2  \* seconds slept between two chunk calls

WavHeader(n) == [kind |-> "hdr", n |-> n]
Frames(i) == [kind |-> "frames", n |-> i]     \* the frames of chunk i's audio
RawAudio(i) == [kind |-> "raw", n |-> i]      \* audio of chunk i, not WAV

\* _create_silence_chunk(duration=1.0): a WAV file of silent frames
SilenceChunk == <<WavHeader(1), Frames(0)>>

\* what generate_audio_with_timeout does for one chunk: it returns WAV
\* data, returns data in another format, or raises
SynthOutcomes == {"wav", "raw", "raise"}
SynthAudio(i, o) ==
    IF o = "wav" THEN <<WavHeader(1), Frames(i)>> ELSE <<RawAudio(i)>>

\* the body of the loop of process_chunks_sequentially for chunk i: the
\* segments it appends to audio_chunks
ChunkSegmentsDropFailed(i, o) ==
    IF o = "raise" THEN <<>> ELSE <<SynthAudio(i, o)>>
ChunkSegments(i, o) ==
    IF o = "raise" THEN <<SilenceChunk>> ELSE <<SynthAudio(i, o)>>

\* b"".join(audio_chunks)
RECURSIVE Concat(_)
Concat(cs) == IF cs = <<>> THEN <<>> ELSE Head(cs) \o Concat(Tail(cs))

\* wave.open(io.BytesIO(chunk_data), 'rb') succeeds
IsWav(b) == b # <<>> /\ b[1].kind = "hdr"

\* the frames of the chunks that wave.open can read; a chunk it cannot
\* read is logged and passed over
RECURSIVE MergedFrames(_)
MergedFrames(cs) ==
    IF cs = <<>> THEN <<>>
    ELSE (IF IsWav(Head(cs)) THEN Tail(Head(cs)) ELSE <<>>)
             \o MergedFrames(Tail(cs))

\* _merge_wav_chunks
MergeWavChunks(cs) ==
    IF ~NUMPY_AVAILABLE THEN Concat(cs)
    ELSE IF \A k \in 1..Len(cs) : ~IsWav(cs[k]) THEN <<>>
    ELSE <<WavHeader(Len(MergedFrames(cs)))>> \o MergedFrames(cs)

\* merge_audio_chunks
MergeAudioChunksNoShortcut(cs) == MergeWavChunks(cs)
MergeAudioChunks(cs) ==
    IF cs = <<>> THEN <<>>
    ELSE IF Len(cs) = 1 THEN cs[1]
    ELSE MergeWavChunks(cs)

\* a processor with a TTS client, any number of chunks, numpy importable or
\* not
InitChunks ==
    /\ LimIdle /\ PipeIdle
    /\ S2AIdle /\ GatherIdle /\ BackoffIdle /\ UnitIdle /\ PaceIdle
    /\ dialogue_lines = <<>> /\ split_pc = "off" /\ natural_splits = 0
    /\ \E n \in 0..MaxChunks :
         chunks = [k \in 1..n |->
                     <<[speaker |-> "Host", chars |-> ShortLineChars,
                        ending |-> TRUE]>>]
    /\ NUMPY_AVAILABLE \in BOOLEAN
    /\ cpc = "process"
    /\ synth = <<>>
    /\ audio_chunks = <<>>
    /\ merged = <<>>

\* one round of the loop of process_chunks_sequentially: the call for the
\* chunk is awaited; after a call that returned, the loop sleeps CHUNK_DELAY
\* unless the chunk is the last; a call that raised leaves the try block
\* before the sleep
ProcessChunk(o) ==
    /\ cpc = "process"
    /\ Len(synth) < Len(chunks)
    /\ synth' = Append(synth, o)
    /\ audio_chunks' = audio_chunks \o ChunkSegments(Len(synth) + 1, o)
    /\ item_gap' = IF o # "raise" /\ Len(synth) + 1 < Len(chunks)
                   THEN CHUNK_DELAY ELSE 0
    /\ UNCHANGED <<limVars, since_request, request_gap, pipeVars, unitVars,
                   s2aVars, gatherVars, splitVars, backoffVars,
                   NUMPY_AVAILABLE, cpc, merged>>

\* process_chunks_sequentially returns audio_chunks
ProcessReturn ==
    /\ cpc = "process"
    /\ Len(synth) = Len(chunks)
    /\ cpc' = "processed"
    /\ UNCHANGED <<limVars, paceVars, pipeVars, unitVars, s2aVars, gatherVars, splitVars,
                   backoffVars, NUMPY_AVAILABLE, synth, audio_chunks, merged>>

\* merge_audio_chunks(audio_chunks)
MergeChunks ==
    /\ cpc = "processed"
    /\ merged' = MergeAudioChunks(audio_chunks)
    /\ cpc' = "merged"
    /\ UNCHANGED <<limVars, paceVars, pipeVars, unitVars, s2aVars, gatherVars, splitVars,
                   backoffVars, NUMPY_AVAILABLE, synth, audio_chunks>>

NextChunks ==
    \/ \E o \in SynthOutcomes : ProcessChunk(o)
    \/ ProcessReturn
    \/ MergeChunks

SpecChunks == InitChunks /\ [][NextChunks]_vars

(***************************************************************************)
(* SpecBackoff: _calculate_backoff_delay on limiters of several            *)
(* configurations, called for attempt 0, 1, 2, ... for a rate-limit error  *)
(* and for a server error.                                                 *)
(***************************************************************************)
MaxAttempt == 7   \* largest attempt index passed to _calculate_backoff_delay

\* RateLimitConfig values (in ticks): base_delay 0.5 s, 1 s, 2 s; max_delay
\* 5 s, 60 s; jitter on or off
BaseDelayChoices == {TICKS \div 2, TICKS, 2 * TICKS}
MaxDelayChoices == {5 * TICKS, 60 * TICKS}
Configs ==
    [base_delay : BaseDelayChoices, max_delay : MaxDelayChoices,
     jitter : BOOLEAN]

\* _calculate_backoff_delay of a limiter with configuration cfg: the set of
\* delays it can return
ConfigBackoffDelays(cfg, att, is_server_error) ==
    LET d == IF is_server_error
             THEN Min(cfg.base_delay * Pow2(att), SERVER_CAP)
             ELSE Min(cfg.base_delay * Pow2(att), cfg.max_delay)
        j == d \div 10
    IN  IF cfg.jitter
        THEN {Max(d + x, MIN_DELAY) : x \in {-j, 0, j}}
        ELSE {Max(d, MIN_DELAY)}

InitBackoff ==
    /\ LimIdle /\ PipeIdle
    /\ S2AIdle /\ GatherIdle /\ SplitIdle /\ ChunkIdle /\ UnitIdle /\ PaceIdle
    /\ config \in Configs
    /\ b_attempt = -1
    /\ b_delay = [rate |-> 0, server |-> 0]
    /\ b_prev = [rate |-> 0, server |-> 0]

\* the delays of the next attempt index are computed, one for each class
CalculateBackoffDelay ==
    /\ b_attempt < MaxAttempt
    /\ b_attempt' = b_attempt + 1
    /\ b_prev' = b_delay
    /\ \E r \in ConfigBackoffDelays(config, b_attempt + 1, FALSE) :
       \E s \in ConfigBackoffDelays(config, b_attempt + 1, TRUE) :
           b_delay' = [rate |-> r, server |-> s]
    /\ UNCHANGED <<limVars, paceVars, pipeVars, unitVars, s2aVars, gatherVars, splitVars,
                   chunkVars, config>>

NextBackoff == CalculateBackoffDelay

SpecBackoff == InitBackoff /\ [][NextBackoff]_vars

(***************************************************************************)
(* SpecManifest: a ManifestManager whose manifest was loaded from the file *)
(* an earlier run left (or that found no file), on which one call of       *)
(* update_section or set_episode_path is made, followed by                 *)
(* get_progress_summary.  A chapter manifest keeps its entries in chapters *)
(* and is updated by update_chapter, which has the same body.              *)
(***************************************************************************)
MaxEntries == 3   \* entries of the loaded manifest

LoadedStatuses == {"pending", "completed", "failed", "failed_rate_limit"}
\* an entry of the loaded file, by its status
LoadedEntry(sn, st) ==
    [NewEntry(sn) EXCEPT
        !.status = st,
        !.script_path = IF st = "completed" THEN <<1, 1>> ELSE NoPath,
        !.audio_path = IF st = "completed" THEN <<1, 1>> ELSE NoPath,
        !.error_message = IF st \in FailureStatuses THEN "invalid input" ELSE ""]

\* the ids of n entries: pairwise distinct, or the first two equal
IdPatterns(n) ==
    {[i \in 1..n |-> i], [i \in 1..n |-> IF i = 1 THEN 1 ELSE i - 1]}

LoadedManifests ==
    UNION {{[loaded |-> TRUE, updated_at |-> 0, use_sections |-> us,
             episode_path |-> NoPath,
             entries |-> [i \in 1..n |-> LoadedEntry(ids[i], sts[i])]] :
               us \in BOOLEAN, ids \in IdPatterns(n),
               sts \in [1..n -> LoadedStatuses]} : n \in 0..MaxEntries}

\* self._manifest is None
UnloadedManifest ==
    [loaded |-> FALSE, updated_at |-> 0, use_sections |-> FALSE,
     episode_path |-> NoPath, entries |-> <<>>]

\* the arguments of an update call; "" and NoPath stand for None
UpdateArgs ==
    [section_number : 1..(MaxEntries + 1),
     status : {"", "audio_generated"},
     script_path : {NoPath, <<2, 1>>},
     audio_path : {NoPath, <<2, 1>>},
     text_chars : {"", "script_len"},
     error_message : {"", "500 server error"}]

\* len(get_sections_by_status(status))
CountStatus(entries, st) ==
    Cardinality({i \in 1..Len(entries) : entries[i].status = st})

\* failed_items of get_progress_summary
FailedItemsNoRateLimit(status_counts) == status_counts["failed"]
FailedItems(status_counts) ==
    status_counts["failed"] + status_counts["failed_rate_limit"]

\* round(completed_items / total_items * 100, 1), in tenths of a percent;
\* round() rounds a tie to the even digit
ProgressPercent(completed_items, total_items) ==
    IF total_items > 0
    THEN LET q == (completed_items * 1000) \div total_items
             r == (completed_items * 1000) % total_items
         IN  IF 2 * r < total_items THEN q
             ELSE IF 2 * r > total_items THEN q + 1
             ELSE IF q % 2 = 0 THEN q ELSE q + 1
    ELSE 0

\* get_progress_summary: {} without a manifest, the section summary for a
\* section manifest with sections, the chapter summary otherwise
GetProgressSummary(m) ==
    IF ~m.loaded THEN [type |-> "empty"]
    ELSE
        LET sections == IF m.use_sections THEN m.entries ELSE <<>>
            chapters == IF m.use_sections THEN <<>> ELSE m.entries
            counts(es) == [st \in Statuses |-> CountStatus(es, st)]
        IN  IF m.use_sections /\ sections # <<>>
            THEN [type |-> "sections",
                  total |-> Len(sections),
                  completed |-> counts(sections)["completed"],
                  failed |-> FailedItems(counts(sections)),
                  progress_percent |->
                      ProgressPercent(counts(sections)["completed"], Len(sections)),
                  status_counts |-> counts(sections),
                  use_sections |-> TRUE]
            ELSE [type |-> "chapters",
                  total |-> Len(chapters),
                  completed |-> counts(chapters)["completed"],
                  failed |-> FailedItems(counts(chapters)),
                  progress_percent |->
                      ProgressPercent(counts(chapters)["completed"], Len(chapters)),
                  status_counts |-> counts(chapters),
                  episode_ready |-> m.episode_path # NoPath,
                  use_sections |-> FALSE]

InitManifest ==
    /\ LimIdle
    /\ S2AIdle /\ GatherIdle /\ SplitIdle /\ ChunkIdle /\ BackoffIdle /\ PaceIdle
    /\ pc = "man_loaded" /\ exit_code = -1 /\ skip_existing = FALSE
    /\ secnum = <<>> /\ pdf_dirname = 0
    /\ manifest \in LoadedManifests \cup {UnloadedManifest}
    /\ disk = IF manifest.loaded THEN FileOf(manifest) ELSE NoFile
    /\ script_files = {} /\ audio_files = {}
    /\ clock = MaxEntries + 1 /\ idx = 0
    /\ section_scripts = <<>> /\ audio_paths = <<>>
    /\ script_calls = {} /\ tts_calls = {} /\ script_out = <<>>
    /\ audio_out = <<>> /\ last_update = "none" /\ prior = <<>>
    /\ summary = [type |-> "none"]
    /\ lecture_content = 0 /\ requests = <<>>
    /\ returned = [call |-> "none"]

\* update_section(a.section_number, status=..., ...) (update_chapter alike)
ManUpdate(a) ==
    /\ pc = "man_loaded"
    /\ DoUpdate(a.section_number, a.status, a.script_path, a.audio_path,
                a.text_chars, a.error_message)
    /\ returned' = [call |-> "update", args |-> a,
                    value |-> FirstMatch(manifest.entries, a.section_number) # 0]
    /\ pc' = "man_called"
    /\ UNCHANGED <<limVars, paceVars, s2aVars, gatherVars, splitVars, chunkVars,
                   backoffVars, exit_code, skip_existing, secnum, pdf_dirname,
                   script_files, audio_files, idx, section_scripts,
                   audio_paths, script_calls, tts_calls, script_out, audio_out,
                   prior, summary, lecture_content, requests>>

\* set_episode_path(episode_path): with a manifest the path is set and the
\* manifest saved; without one nothing happens
ManSetEpisodePath ==
    /\ pc = "man_loaded"
    /\ IF manifest.loaded
       THEN /\ manifest' = [manifest EXCEPT !.episode_path = <<2, 0>>,
                                            !.updated_at = clock + 1]
            /\ clock' = clock + 2
            /\ Persist(manifest')
       ELSE UNCHANGED <<manifest, clock, disk>>
    /\ returned' = [call |-> "set_episode_path"]
    /\ pc' = "man_called"
    /\ UNCHANGED <<limVars, paceVars, s2aVars, gatherVars, splitVars, chunkVars,
                   backoffVars, exit_code, skip_existing, secnum, pdf_dirname,
                   script_files, audio_files, idx, section_scripts,
                   audio_paths, script_calls, tts_calls, script_out, audio_out,
                   last_update, prior, summary, lecture_content, requests>>

\* get_progress_summary()
ManGetProgressSummary ==
    /\ pc = "man_called"
    /\ summary' = GetProgressSummary(manifest)
    /\ pc' = "man_summary"
    /\ UNCHANGED <<limVars, paceVars, s2aVars, gatherVars, splitVars, chunkVars,
                   backoffVars, exit_code, skip_existing, secnum, pdf_dirname,
                   manifest, disk, script_files, audio_files, clock, idx,
                   section_scripts, audio_paths, script_calls, tts_calls,
                   script_out, audio_out, last_update, prior, lecture_content,
                   requests, returned>>

NextManifest ==
    \/ \E a \in UpdateArgs : ManUpdate(a)
    \/ ManSetEpisodePath
    \/ ManGetProgressSummary

SpecManifest == InitManifest /\ [][NextManifest]_vars

(***************************************************************************)
(* SpecInterrupt: the pipeline run of SpecPipeline with the SIGINT handler *)
(* installed by __init__.  The operator may interrupt at any point of a    *)
(* run that has not returned; the handler saves the manifest, if there is  *)
(* one, and exits the process with status 0.                               *)
(***************************************************************************)
\* _signal_handler: manifest_manager.save() stamps the manifest and writes
\* the file (nothing without a manifest), then sys.exit(0)
Interrupt ==
    /\ pc \notin {"done", "interrupted"}
    /\ IF manifest.loaded
       THEN /\ manifest' = [manifest EXCEPT !.updated_at = clock + 1]
            /\ clock' = clock + 2
            /\ Persist(manifest')
       ELSE UNCHANGED <<manifest, clock, disk>>
    /\ pc' = "interrupted"
    /\ exit_code' = 0
    /\ UNCHANGED <<limVars, auxVars, skip_existing, secnum, pdf_dirname,
                   script_files, audio_files, idx, section_scripts,
                   audio_paths, script_calls, tts_calls, script_out, audio_out,
                   last_update, prior>>

NextInterrupt == NextPipeline \/ Interrupt

SpecInterrupt == InitPipeline /\ [][NextInterrupt]_vars

(***************************************************************************)
(* SpecTts: one generate_audio_with_retry call of the audio stage on the   *)
(* content of one section script.  Each attempt is a generate_audio call,  *)
(* which sends one request to the TTS service; requests records the size   *)
(* in characters of every request sent.                                    *)
(***************************************************************************)
MaxContentUnits == 8   \* the longest content, in half chunks
\* above this generate_audio warns that the content may time out
LARGE_CONTENT_CHARS == 3000

\* len(section_script.content)
ContentChoices == {k * (MAX_CHUNK_CHARS \div 2) : k \in 1..MaxContentUnits}

InitTts ==
    /\ LimIdle /\ PipeIdle
    /\ S2AIdle /\ GatherIdle /\ SplitIdle /\ ChunkIdle /\ BackoffIdle /\ PaceIdle
    /\ summary = [type |-> "none"]
    /\ lecture_content \in ContentChoices
    /\ requests = <<>>
    /\ returned = [call |-> "generate_audio_with_retry", value |-> "pending"]

\* one pass of the retry loop: generate_audio sends the whole content
\* (style_instructions None) as the contents of one request and returns the
\* audio or raises o; the loop returns the audio, goes on to the next
\* attempt, or raises
GenerateAudio(o) ==
    /\ returned.call = "generate_audio_with_retry"
    /\ returned.value = "pending"
    /\ requests' = Append(requests, lecture_content)
    /\ returned' =
          [returned EXCEPT !.value =
              IF o = "ok" THEN "audio"
              ELSE IF TtsHandling(o, Len(requests)) = "retry" THEN "pending"
              ELSE TtsHandling(o, Len(requests))]
    /\ UNCHANGED <<limVars, paceVars, pipeVars, s2aVars, gatherVars, splitVars,
                   chunkVars, backoffVars, summary, lecture_content>>

NextTts == \E o \in {"ok"} \cup PipeErrors : GenerateAudio(o)

SpecTts == InitTts /\ [][NextTts]_vars

(***************************************************************************)
(* SpecScript: one generate_section_script call.  The API call under       *)
(* call_with_backoff ends with an outcome; when it returned, the answer is *)
(* parsed into a content of lecture_content characters, the SectionScript  *)
(* and a LectureScript with the same content are built, the LectureScript  *)
(* is validated, and the SectionScript is returned.                        *)
(***************************************************************************)
MaxScriptUnits == 22   \* the longest generated content, in hundreds of characters

MAX_LINES == 25
MAX_CHARS == 2000
WARN_LINES == 20
WARN_CHARS == 1800
SHORT_SCRIPT_CHARS == 200
LONG_LINE_CHARS == 300

ATTRIBUTE_ERROR == "'LectureScript' object has no attribute 'lines'"

\* the LectureScript dataclass: chapter_title, content, total_chars
LectureScript(chars) ==
    [chapter_title |-> "title", content |-> chars, total_chars |-> chars]

\* validate_script(script): every check on the lines reads script.lines,
\* the first one before anything else, which raises AttributeError on an
\* object without that attribute.  A line is [speaker, text], text being
\* its length.
ValidateScript(script) ==
    IF "lines" \notin DOMAIN script THEN [raised |-> ATTRIBUTE_ERROR]
    ELSE
        LET n == Len(script.lines)
            host_lines == Cardinality({k \in 1..n : script.lines[k].speaker = "Host"})
            guest_lines == Cardinality({k \in 1..n : script.lines[k].speaker = "Guest"})
            long_line == \E k \in 1..n : script.lines[k].text > LONG_LINE_CHARS
        IN  [raised |-> "",
             warnings |->
                 {w \in {"many lines", "many chars", "few chars", "unbalanced",
                         "long line"} :
                     \/ w = "many lines" /\ n > WARN_LINES
                     \/ w = "many chars" /\ script.total_chars > WARN_CHARS
                     \/ w = "few chars" /\ script.total_chars < SHORT_SCRIPT_CHARS
                     \/ w = "unbalanced" /\ host_lines > 0 /\ guest_lines > 0
                            /\ 10 * Min(host_lines, guest_lines)
                                   < 3 * Max(host_lines, guest_lines)
                     \/ w = "long line" /\ long_line},
             errors |->
                 {e \in {"too many lines", "too many chars", "empty", "no host",
                         "no guest"} :
                     \/ e = "too many lines" /\ n > MAX_LINES
                     \/ e = "too many chars" /\ script.total_chars > MAX_CHARS
                     \/ e = "empty" /\ n = 0
                     \/ e = "no host" /\ host_lines = 0
                     \/ e = "no guest" /\ host_lines > 0 /\ guest_lines = 0}]

\* len(lecture_content) of the parsed answer
ScriptSizes == {100 * k : k \in 1..MaxScriptUnits}

InitScript ==
    /\ LimIdle /\ PipeIdle
    /\ S2AIdle /\ GatherIdle /\ SplitIdle /\ ChunkIdle /\ BackoffIdle /\ PaceIdle
    /\ summary = [type |-> "none"]
    /\ lecture_content \in ScriptSizes
    /\ requests = <<>>
    /\ returned = [call |-> "generate_section_script", api |-> "none",
                   value |-> "pending"]

\* await call_with_backoff(self.model.generate_content, prompt) ends with
\* o; an exception goes through the except clause, which logs and re-raises
ScriptApiCall(o) ==
    /\ returned.call = "generate_section_script" /\ returned.api = "none"
    /\ requests' = Append(requests, "generate_content")
    /\ returned' = [returned EXCEPT !.api = o,
                                    !.value = IF o = "ok" THEN "pending" ELSE o]
    /\ UNCHANGED <<limVars, paceVars, pipeVars, s2aVars, gatherVars, splitVars,
                   chunkVars, backoffVars, summary, lecture_content>>

\* the rest of generate_section_script: the scripts are built, the
\* LectureScript validated and the result logged, and the SectionScript
\* returned whatever the result; an exception of any of these steps is
\* logged and re-raised
ValidateAndReturn ==
    /\ returned.call = "generate_section_script"
    /\ returned.api = "ok" /\ returned.value = "pending"
    /\ LET validation_result == ValidateScript(LectureScript(lecture_content))
       IN  returned' = [returned EXCEPT !.value =
                           IF validation_result.raised # ""
                           THEN validation_result.raised
                           ELSE "script"]
    /\ UNCHANGED <<limVars, paceVars, pipeVars, s2aVars, gatherVars, splitVars,
                   chunkVars, backoffVars, summary, lecture_content, requests>>

NextScript ==
    \/ \E o \in ScriptOutcomes : ScriptApiCall(o)
    \/ ValidateAndReturn

SpecScript == InitScript /\ [][NextScript]_vars

(***************************************************************************)
(* SpecScriptWrite: the pipeline run of SpecPipeline in which writing a    *)
(* script file may fail as well.  In the loop of _generate_section_scripts *)
(* the returned script is put into section_scripts first; the directory is *)
(* made and the file written after that, inside the same try block.        *)
(***************************************************************************)
WRITE_ERROR == "[Errno 28] No space left on device"

\* script stage, item idx: generate_section_script returns the script, which
\* is stored in section_scripts; mkdir or open / write then raises, and the
\* except clause sets the entry to FAILED with str(e); the loop goes on
ScriptFileUnwritten ==
    /\ pc = "scripts" /\ idx <= NumItems
    /\ script_calls' = script_calls \cup {idx}
    /\ script_out' = [script_out EXCEPT ![idx] = "ok"]
    /\ section_scripts' = Append(section_scripts, idx)
    /\ DoUpdate(secnum[idx], "failed", NoPath, NoPath, "", WRITE_ERROR)
    /\ idx' = AfterScriptFailure(idx)
    /\ UNCHANGED <<limVars, auxVars, pc, exit_code, skip_existing, secnum,
                   pdf_dirname, script_files, audio_files, audio_paths,
                   tts_calls, audio_out, prior>>

NextScriptWrite == NextPipeline \/ ScriptFileUnwritten

SpecScriptWrite == InitPipeline /\ [][NextScriptWrite]_vars

(***************************************************************************)
(* SpecPacing: TTSClient.generate_section_audios_async over the section    *)
(* scripts, with time.  The loop sleeps PACING_DELAY before every item but *)
(* the first and then awaits process_section, which skips an existing file *)
(* or calls generate_audio_with_retry; a retry follows the failed request  *)
(* after the wait the except clause computes.  Times are in seconds; a     *)
(* request takes one of RequestDurations, a sleep may overrun by up to     *)
(* MaxOversleep, and random.uniform takes one of its two extremes.         *)
(***************************************************************************)
MaxRequestSeconds == 3   \* the longest a synthesis request takes
MaxOversleep == 1        \* the longest asyncio.sleep overruns

PACING_DELAY == 31
RATE_BASE_WAIT == 30
RATE_JITTER_MAX == 5
SERVER_JITTER_MAX == 1

RequestDurations == {0, MaxRequestSeconds}
Oversleeps == {0, MaxOversleep}

\* the sleep of the loop before the item at position i (none before the
\* first)
PacingSleepSecondOnly(i, over) == IF i = 2 THEN PACING_DELAY + over ELSE 0
PacingSleep(i, over) == IF i > 1 THEN PACING_DELAY + over ELSE 0

\* wait_time of the except clause of generate_audio_with_retry for error e
\* on attempt a, with random.uniform at its lower (jit = 0) or upper bound
RetryWait(e, a, jit) ==
    IF TtsIsRateLimit(e)
    THEN RATE_BASE_WAIT + Pow2(a) + jit * RATE_JITTER_MAX
    ELSE Pow2(a) + jit * SERVER_JITTER_MAX

InitPacing ==
    /\ LimIdle
    /\ S2AIdle /\ GatherIdle /\ SplitIdle /\ ChunkIdle /\ BackoffIdle
    /\ PaceIdle
    /\ pc = "pace_next" /\ exit_code = -1
    /\ skip_existing \in BOOLEAN
    /\ secnum = <<>> /\ pdf_dirname = 1
    /\ manifest = NoManifest /\ disk = NoFile
    /\ script_files = {}
    /\ \E k \in 0..NumItems : audio_files = {<<1, i>> : i \in 1..k}
    /\ clock = 0 /\ idx = 1
    /\ \E n \in 0..NumItems : section_scripts = [i \in 1..n |-> i]
    /\ audio_paths = <<>>
    /\ script_calls = {} /\ tts_calls = {}
    /\ script_out = <<>>
    /\ audio_out = [i \in Items |-> "none"]
    /\ last_update = "none" /\ prior = <<>>
    /\ summary = [type |-> "none"] /\ lecture_content = 0
    /\ requests = <<>>
    /\ returned = [call |-> "generate_section_audios_async"]

\* the loop turns to the item at position idx: it sleeps (but for the first
\* item) and enters process_section, which returns the existing file's path
\* when skip_existing is set, and calls generate_audio_with_retry otherwise
PaceNextItem(over) ==
    /\ pc = "pace_next" /\ idx <= Len(section_scripts)
    /\ idx = 1 => over = 0
    /\ item_gap' = IF idx > 1 THEN PacingSleep(idx, over) ELSE -1
    /\ since_request' = IF since_request = -1 THEN -1
                        ELSE since_request + PacingSleep(idx, over)
    /\ IF skip_existing /\ <<pdf_dirname, AudioItem>> \in audio_files
       THEN /\ audio_out' = [audio_out EXCEPT ![AudioItem] = "skipped"]
            /\ audio_paths' = Append(audio_paths, AudioItem)
            /\ idx' = idx + 1
            /\ UNCHANGED <<pc, requests>>
       ELSE /\ pc' = "pace_call"
            /\ requests' = <<>>
            /\ UNCHANGED <<audio_out, audio_paths, idx>>
    /\ UNCHANGED <<limVars, s2aVars, gatherVars, splitVars, chunkVars,
                   backoffVars, exit_code, skip_existing, secnum, pdf_dirname,
                   manifest, disk, script_files, audio_files, clock,
                   section_scripts, script_calls, tts_calls, script_out,
                   last_update, prior, summary, lecture_content, returned,
                   request_gap>>

\* one pass of the loop of generate_audio_with_retry: the request is issued,
\* takes dur and ends with o; the call returns, raises, or sleeps the wait
\* and goes on to the next attempt
PaceAttempt(o, dur, jit) ==
    /\ pc = "pace_call"
    /\ request_gap' = since_request
    /\ requests' = Append(requests, "generate_content")
    /\ tts_calls' = tts_calls \cup {AudioItem}
    /\ LET a == Len(requests)
           h == IF o = "ok" THEN "ok" ELSE TtsHandling(o, a)
       IN  IF h = "retry"
           THEN /\ since_request' = dur + RetryWait(o, a, jit)
                /\ UNCHANGED <<pc, idx, audio_out, audio_paths, audio_files>>
           ELSE /\ since_request' = dur
                /\ jit = 0
                /\ audio_out' = [audio_out EXCEPT ![AudioItem] = h]
                /\ audio_paths' = IF h = "ok" THEN Append(audio_paths, AudioItem)
                                  ELSE audio_paths
                /\ audio_files' = IF h = "ok"
                                  THEN audio_files \cup {<<pdf_dirname, AudioItem>>}
                                  ELSE audio_files
                /\ idx' = idx + 1
                /\ pc' = "pace_next"
    /\ UNCHANGED <<limVars, s2aVars, gatherVars, splitVars, chunkVars,
                   backoffVars, exit_code, skip_existing, secnum, pdf_dirname,
                   manifest, disk, script_files, clock, section_scripts,
                   script_calls, script_out, last_update, prior, summary,
                   lecture_content, returned, item_gap>>

\* generate_section_audios_async returns audio_paths
PaceReturn ==
    /\ pc = "pace_next" /\ idx > Len(section_scripts)
    /\ pc' = "done"
    /\ UNCHANGED <<limVars, auxVars, exit_code, skip_existing, secnum,
                   pdf_dirname, manifest, disk, script_files, audio_files,
                   clock, idx, section_scripts, audio_paths, script_calls,
                   tts_calls, script_out, audio_out, last_update, prior>>

NextPacing ==
    \/ \E over \in Oversleeps : PaceNextItem(over)
    \/ \E o \in {"ok"} \cup PipeErrors, dur \in RequestDurations, jit \in {0, 1} :
          PaceAttempt(o, dur, jit)
    \/ PaceReturn

SpecPacing == InitPacing /\ [][NextPacing]_vars

(***************************************************************************)
(* Claims about the rate limiter                                           *)
(***************************************************************************)

\* C1: at no instant do more than rpm_limit recorded request instants lie in
\* the trailing 60 s window, and an acquire that follows rpm_limit others
\* returns no earlier than 60 s after the oldest of them.
C1_WindowInvariant ==
    /\ Cardinality(InWindow(request_times, now)) <= rpm_limit
    /\ Len(returns) = rpm_limit + 1 =>
          returns[rpm_limit + 1] >= returns[1] + WINDOW

\* rpm_limit immediate acquires, then one more that had to wait the full window
C1_Witness ==
    /\ Len(returns) = rpm_limit + 1
    /\ returns[rpm_limit] = returns[1]
    /\ returns[rpm_limit + 1] = returns[1] + WINDOW
    /\ Cardinality(InWindow(request_times, now)) = 1

\* C7: a call whose operation fails with a rate-limit-class error on every
\* attempt invokes it max_retries + 1 times, sleeps between consecutive
\* attempts, and ends with the distinct "Rate limit exceeded" error.
C7_RateLimitExhaustion ==
    \A t \in Tasks :
        seen[t] = {"rate"} =>
            /\ calls[t] <= max_retries + 1
            /\ tpc[t] = "done" =>
                  /\ calls[t] = max_retries + 1
                  /\ sleeps[t] = max_retries
                  /\ result[t] = RATE_LIMIT_EXCEEDED
                  /\ result[t] # last_exception[t]

C7_Witness ==
    \E t \in Tasks :
        /\ tpc[t] = "done"
        /\ seen[t] = {"rate"}
        /\ calls[t] = max_retries + 1
        /\ result[t] = RATE_LIMIT_EXCEEDED

\* C8: server-class errors are retried up to max_retries times; a success
\* within the budget is returned and ends the call; when every attempt fails
\* the operation's own error is raised, not the rate-limit-exceeded error.
C8_ServerErrorRetry ==
    \A t \in Tasks :
        /\ seen[t] \subseteq {"server", "ok"} => calls[t] <= max_retries + 1
        /\ (tpc[t] = "done" /\ seen[t] = {"server"}) =>
              /\ calls[t] = max_retries + 1
              /\ sleeps[t] = max_retries
              /\ result[t] = last_exception[t]
              /\ IsServerError(result[t])
        /\ (tpc[t] = "done" /\ seen[t] = {"server", "ok"}) =>
              /\ result[t] = "value"
              /\ calls[t] = sleeps[t] + 1

\* every attempt failed with a server error: that error is raised
C8_Witness ==
    \E t \in Tasks :
        /\ tpc[t] = "done" /\ seen[t] = {"server"}
        /\ result[t] = "500 server error" /\ calls[t] = max_retries + 1

\* C9: an error of neither class ends the call at once: the operation was
\* invoked once, no backoff sleep was made, the same error is raised.
C9_NonRetryable ==
    \A t \in Tasks :
        /\ seen[t] = {"other"} =>
              /\ tpc[t] = "done"
              /\ calls[t] = 1
              /\ sleeps[t] = 0
              /\ result[t] = last_exception[t]
        /\ "other" \in seen[t] =>
              /\ tpc[t] = "done"
              /\ result[t] = last_exception[t]
              /\ ClassOf(result[t]) = "other"
              /\ calls[t] = sleeps[t] + 1

C9_Witness ==
    \E t \in Tasks :
        /\ tpc[t] = "done"
        /\ seen[t] = {"other"}
        /\ calls[t] = 1
        /\ result[t] = "invalid input"

(***************************************************************************)
(* Claims about the orchestrator and the manifest (SpecPipeline)           *)
(***************************************************************************)
\* the run started on an output directory whose manifest has item 1
\* COMPLETED and item 2 PENDING
PriorAB ==
    /\ Len(prior) >= 2
    /\ prior[1].status = "completed"
    /\ prior[2].status = "pending"

\* section numbers pairwise distinct
DistinctIds == \A i, j \in Items : secnum[i] = secnum[j] => i = j

ScriptStageReturned == pc \in {"audio", "audio_update"} \/ (pc = "done" /\ exit_code = 0)
AudioStageReturned == pc = "audio_update" \/ (pc = "done" /\ exit_code = 0)
RunReturned == pc = "done" /\ exit_code = 0

\* C2: (section numbers distinct) re-running with skip_existing over a
\* persisted run in which item A
\* (1) is COMPLETED and item B (2) is PENDING makes no external generation
\* call for A, works in the directory that holds A's prior outputs, and
\* leaves A's manifest entry as it was (same status, same updated_at).
C2_Resumption ==
    (skip_existing /\ PriorAB /\ DistinctIds) =>
        /\ 1 \notin script_calls
        /\ 1 \notin tts_calls
        /\ pdf_dirname \in {0, 1}
        /\ manifest.loaded => manifest.entries[1] = prior[1]

RecordedFailed(i) ==
    /\ manifest.entries[i].status \in FailureStatuses
    /\ manifest.entries[i].error_message # ""

\* C4: (section numbers distinct) an item whose script call failed has a
\* failure status and an error message in its entry when the script stage has
\* returned, and so has an item whose audio call failed when the audio stage
\* and its manifest updates are over.
C4_FailureRecorded ==
    DistinctIds =>
        /\ ScriptStageReturned => \A i \in Items : Failed(script_out[i]) => RecordedFailed(i)
        /\ RunReturned => \A i \in Items : Failed(audio_out[i]) => RecordedFailed(i)

Rank(st) ==
    CASE st = "pending" -> 0
      [] st = "script_generated" -> 1
      [] st = "audio_generated" -> 2
      [] st = "completed" -> 3
      [] OTHER -> 4

\* a status change the lifecycle allows
Forward(a, b) ==
    \/ a = b
    \/ a \notin TerminalStatuses /\ b \in FailureStatuses
    \/ a \notin FailureStatuses /\ b \notin FailureStatuses /\ Rank(a) < Rank(b)

\* C5: no step of a run moves a manifest entry's status backward or out of
\* a terminal status.
C5_ForwardOnly ==
    [][(manifest.loaded /\ manifest'.loaded) =>
          \A i \in 1..Len(manifest.entries) :
              Forward(manifest.entries[i].status, manifest'.entries[i].status)]_vars

\* C6: once update_section has returned True, manifest.json holds exactly
\* the in-memory manifest.
C6_Durable ==
    last_update = "true" => disk = FileOf(manifest)

\* C10: (section numbers distinct) an item whose stage call ended because
\* the rate-limit retries were exhausted has status FAILED_RATE_LIMIT.
C10_RateLimitStatus ==
    DistinctIds =>
        /\ ScriptStageReturned =>
              \A i \in Items :
                  script_out[i] = RATE_LIMIT_EXCEEDED =>
                      manifest.entries[i].status = "failed_rate_limit"
        /\ RunReturned =>
              \A i \in Items :
                  audio_out[i] = FAILED_RATE_LIMIT_MSG =>
                      manifest.entries[i].status = "failed_rate_limit"

(***************************************************************************)
(* Claims about scripts-to-audio mode (SpecScriptsToAudio)                 *)
(***************************************************************************)
\* C11: a rate-limit failure on one item is not fatal: when the run is over,
\* every item after one that failed with a rate-limit error was processed
\* too and the run ended normally (exit code 0).
C11_RateLimitNotFatal ==
    pc = "done" =>
        \A k \in 1..Len(missing) :
            (missing[k] \in tts_calls /\ IsRateLimitError(audio_out[missing[k]])) =>
                /\ exit_code = 0
                /\ \A j \in k..Len(missing) : missing[j] \in tts_calls

(***************************************************************************)
(* Further claims about the orchestrator (SpecPipeline)                    *)
(***************************************************************************)
\* the script an earlier run wrote for item i is on disk
PriorScriptExists(i) ==
    /\ i <= Len(prior)
    /\ prior[i].script_path # NoPath
    /\ prior[i].script_path \in script_files

\* C12: (section numbers distinct) with skip_existing set, a stage that
\* turns to an item whose output artifact is already on disk makes no
\* external call for it and puts it in its result; and at the end of the run
\* the entry of an item skipped by the audio stage carries the audio status
\* and path.  For the script stage and for the audio stage.
C12_SkipExisting ==
    /\ [][(skip_existing /\ DistinctIds /\ pc = "scripts" /\ idx <= NumItems
              /\ PriorScriptExists(idx))
            => /\ script_calls' = script_calls
               /\ idx' = idx + 1 => InSeq(idx, section_scripts')]_vars
    /\ [][(skip_existing /\ DistinctIds /\ pc = "audio"
              /\ idx <= Len(section_scripts)
              /\ <<pdf_dirname, section_scripts[idx]>> \in audio_files)
            => /\ tts_calls' = tts_calls
               /\ idx' = idx + 1 => InSeq(section_scripts[idx], audio_paths')]_vars
    /\ []((RunReturned /\ DistinctIds) =>
            \A i \in Items :
                audio_out[i] = "skipped" =>
                    /\ manifest.entries[i].status = "audio_generated"
                    /\ manifest.entries[i].audio_path = <<pdf_dirname, i>>)

\* C14: (section numbers distinct) when the run has ended normally every
\* entry is in a terminal status, and an item whose script and audio were
\* both produced is COMPLETED.
C14_TerminalAtEnd ==
    (RunReturned /\ DistinctIds) =>
        \A i \in Items :
            /\ manifest.entries[i].status \in TerminalStatuses
            /\ (script_out[i] = "ok" /\ audio_out[i] \in {"ok", "skipped"})
                  => manifest.entries[i].status = "completed"

(***************************************************************************)
(* Claims about the concurrency of a stage (SpecGather)                    *)
(***************************************************************************)
\* the capacity of the semaphore: free permits plus permits held
EffectiveLimit == semaphore + Cardinality(Holders)
GatherStarted == \E t \in Tasks : gpc[t] # "new"

C15_ChunkSizeBound ==
    split_pc = "split" =>
        \A k \in 1..Len(chunks) :
            \/ /\ TotalChars(chunks[k]) <= MAX_CHUNK_CHARS
               /\ Len(chunks[k]) <= MAX_CHUNK_LINES
            \/ /\ Len(chunks[k]) = 1
               /\ chunks[k][1].chars > MAX_CHUNK_CHARS

\* the dialogue of a 3000-character script
Is3000 == split_pc = "split" /\ TotalChars(dialogue_lines) = 3000
LinesFit == \A k \in 1..Len(dialogue_lines) :
                dialogue_lines[k].chars <= MAX_CHUNK_CHARS

C16_OneSegmentPerChunk ==
    cpc # "off" =>
        /\ Len(audio_chunks) = Len(synth)
        /\ \A k \in 1..Len(synth) :
              audio_chunks[k] = IF synth[k] = "raise" THEN SilenceChunk
                                ELSE SynthAudio(k, synth[k])
        /\ cpc \in {"processed", "merged"} => Len(audio_chunks) = Len(chunks)

\* the processing has returned; a failed chunk lies between two successful
\* ones
C16_Witness ==
    /\ cpc = "processed"
    /\ Len(chunks) = 3
    /\ synth[1] # "raise" /\ synth[2] = "raise" /\ synth[3] # "raise"

\* C17: when two or more chunks are merged and re-muxing is not possible
\* (numpy is unavailable, or some chunk is not a WAV file), the result is
\* the concatenation of all chunks in order.
C17_NaiveConcatenation ==
    (/\ cpc = "merged"
     /\ Len(audio_chunks) >= 2
     /\ \/ ~NUMPY_AVAILABLE
        \/ \E k \in 1..Len(audio_chunks) : ~IsWav(audio_chunks[k]))
        => merged = Concat(audio_chunks)

\* C18: merging a one-element list returns the element, merging the empty
\* list returns the empty byte string.
C18_SingletonAndEmpty ==
    cpc = "merged" =>
        /\ Len(audio_chunks) = 1 => merged = audio_chunks[1]
        /\ audio_chunks = <<>> => merged = <<>>

\* a single chunk that is not a WAV file has been merged with numpy
\* available
C18_Witness ==
    /\ cpc = "merged"
    /\ NUMPY_AVAILABLE
    /\ Len(audio_chunks) = 1
    /\ ~IsWav(audio_chunks[1])
    /\ merged = audio_chunks[1]

(***************************************************************************)
(* Claims about the backoff delays (SpecBackoff)                           *)
(***************************************************************************)
\* C20: for each error class the delay of an attempt is at least the delay
\* of the attempt before, and for every attempt and configuration the
\* server-error delay is at most the rate-limit delay.
C20_BackoffMonotone ==
    /\ b_attempt >= 1 =>
          /\ b_delay.rate >= b_prev.rate
          /\ b_delay.server >= b_prev.server
    /\ b_attempt >= 0 => b_delay.server <= b_delay.rate

\* the configuration of the test fixture: base_delay 1.0, max_delay 60,
\* jitter off
FixtureConfig ==
    config = [base_delay |-> base_delay, max_delay |-> max_delay, jitter |-> FALSE]

\* C21: with jitter disabled (base_delay 1.0, max_delay 60) the delay of
\* attempt 1 is strictly larger than the delay of attempt 0 for each error
\* class, and at attempt 0 the server-error delay is strictly shorter than
\* the rate-limit delay.
C21_FixtureDelays ==
    FixtureConfig =>
        /\ b_attempt = 1 =>
              /\ b_delay.rate > b_prev.rate
              /\ b_delay.server > b_prev.server
        /\ b_attempt = 0 => b_delay.server < b_delay.rate

(***************************************************************************)
(* Claims about the manifest manager (SpecManifest)                        *)
(***************************************************************************)
\* the fields of an entry an update can set
Supplied(old, new, omitted) == IF new = omitted THEN old ELSE new

\* C22: an update call whose id matches an entry returns true and changes,
\* of the first such entry, only the supplied fields and updated_at; every
\* omitted field of it and every other entry is unchanged.  A call whose id
\* matches no entry returns false and changes neither the manifest in
\* memory nor the file.
C22_UpdateFrame ==
    [][(pc = "man_loaded" /\ returned'.call = "update") =>
        LET a == returned'.args
            j == FirstMatch(manifest.entries, a.section_number)
            old == manifest.entries[j]
            new == manifest'.entries[j]
        IN  IF j # 0
            THEN /\ returned'.value = TRUE
                 /\ Len(manifest'.entries) = Len(manifest.entries)
                 /\ \A i \in 1..Len(manifest.entries) :
                       i # j => manifest'.entries[i] = manifest.entries[i]
                 /\ new.section_number = old.section_number
                 /\ new.status = Supplied(old.status, a.status, "")
                 /\ new.script_path = Supplied(old.script_path, a.script_path, NoPath)
                 /\ new.audio_path = Supplied(old.audio_path, a.audio_path, NoPath)
                 /\ new.text_chars = Supplied(old.text_chars, a.text_chars, "")
                 /\ new.error_message =
                        Supplied(old.error_message, a.error_message, "")
                 /\ new.updated_at >= clock
            ELSE /\ returned'.value = FALSE
                 /\ manifest' = manifest
                 /\ disk' = disk]_vars

\* a failed entry was given a status and an audio path only: it keeps its
\* error message and its script path
C22_Witness ==
    /\ pc = "man_called" /\ returned.call = "update" /\ returned.value = TRUE
    /\ returned.args.status = "audio_generated"
    /\ returned.args.audio_path # NoPath
    /\ returned.args.error_message = "" /\ returned.args.script_path = NoPath
    /\ \E j \in 1..Len(manifest.entries) :
          /\ manifest.entries[j].status = "audio_generated"
          /\ manifest.entries[j].error_message = "invalid input"
          /\ manifest.entries[j].script_path = NoPath
          /\ manifest.entries[j].audio_path = returned.args.audio_path

RECURSIVE C24_SumOver(_, _)
C24_SumOver(f, S) ==
    IF S = {} THEN 0
    ELSE LET x == CHOOSE y \in S : TRUE IN f[x] + C24_SumOver(f, S \ {x})

\* the counting part of the summary, read off the manifest's entries
C24_Counts ==
    /\ summary.total = Len(manifest.entries)
    /\ DOMAIN summary.status_counts = Statuses
    /\ C24_SumOver(summary.status_counts, Statuses) = summary.total
    /\ summary.completed =
          Cardinality({i \in 1..Len(manifest.entries) :
                          manifest.entries[i].status = "completed"})
    /\ summary.failed =
          Cardinality({i \in 1..Len(manifest.entries) :
                          manifest.entries[i].status \in FailureStatuses})

\* C24 (as stated): in every summary total is the number of entries, the
\* per-status counts sum to total, completed counts the COMPLETED entries,
\* failed the FAILED and FAILED_RATE_LIMIT entries, and the percentage is
\* exactly completed / total x 100 (0 when total is 0).  progress_percent
\* is in tenths of a percent.
C24_SummaryExact ==
    (pc = "man_summary" /\ summary.type \in {"sections", "chapters"}) =>
        /\ C24_Counts
        /\ IF summary.total = 0 THEN summary.progress_percent = 0
           ELSE summary.progress_percent * summary.total =
                    summary.completed * 1000

\* C24 (amended): the same, with the percentage being completed / total x
\* 100 rounded to one decimal place: it differs from the exact quotient by
\* at most 0.05.
C24_SummaryRounded ==
    (pc = "man_summary" /\ summary.type \in {"sections", "chapters"}) =>
        /\ C24_Counts
        /\ IF summary.total = 0 THEN summary.progress_percent = 0
           ELSE LET d == summary.progress_percent * summary.total
                            - summary.completed * 1000
                IN  2 * d <= summary.total /\ 2 * d >= -summary.total

\* two of three entries completed, the third failed on the rate limit:
\* 66.7 percent
C24_Witness ==
    /\ pc = "man_summary" /\ summary.type = "sections"
    /\ summary.total = 3 /\ summary.completed = 2 /\ summary.failed = 1
    /\ summary.status_counts["failed_rate_limit"] = 1
    /\ summary.progress_percent = 667

\* C25: every summary of a loaded manifest, chapter or section manifest
\* alike, has an episode_ready boolean, which is false while no episode
\* path is set and true once set_episode_path has been called.
C25_EpisodeReady ==
    (pc = "man_summary" /\ manifest.loaded) =>
        /\ "episode_ready" \in DOMAIN summary
        /\ summary.episode_ready = (returned.call = "set_episode_path")

(***************************************************************************)
(* Further claims about the manifest in a run (SpecPipeline)               *)
(***************************************************************************)
\* C23: when manifest creation returns, the manifest has one entry per work
\* item, in the items' order, each PENDING, and the manifest file holds
\* that manifest; afterwards no step of the run adds, removes or reorders
\* an entry.
C23_Creation ==
    [][/\ (pc = "setup" /\ pc' = "scripts") =>
            /\ Len(manifest'.entries) = Len(secnum)
            /\ \A i \in Items :
                  /\ manifest'.entries[i].section_number = secnum[i]
                  /\ manifest'.entries[i].status = "pending"
            /\ disk' = FileOf(manifest')
       /\ manifest.loaded =>
            /\ Len(manifest'.entries) = Len(manifest.entries)
            /\ \A i \in 1..Len(manifest.entries) :
                  manifest'.entries[i].section_number =
                      manifest.entries[i].section_number]_vars

\* C26: a save replaces the manifest file atomically: after any step the
\* file is the complete file it was before or the complete file of the
\* manifest now in memory, never an empty or partly written one.
C26_AtomicSave ==
    [][disk' # disk => (disk' = FileOf(manifest') /\ disk'.state = "complete")]_vars

\* C28: (section numbers distinct) a run that has returned with an item
\* recorded as failed has not returned the exit code 0 of a run in which
\* every item succeeded.
C28_ExitStatus ==
    (pc = "done" /\ DistinctIds /\ manifest.loaded
        /\ \E i \in Items : RecordedFailed(i)) => exit_code # 0

(***************************************************************************)
(* Cancellation (SpecInterrupt)                                            *)
(***************************************************************************)
\* C27: when an interrupt ends the run, the manifest in memory has been
\* written to the manifest file before the process exits, and no entry's
\* status has been changed by the interrupt.
C27_InterruptFlush ==
    [][(pc' = "interrupted" /\ pc # "interrupted" /\ manifest.loaded) =>
          /\ disk' = FileOf(manifest')
          /\ Len(manifest'.entries) = Len(manifest.entries)
          /\ \A i \in 1..Len(manifest.entries) :
                manifest'.entries[i].status = manifest.entries[i].status]_vars

(***************************************************************************)
(* Long content in the audio stage (SpecTts)                               *)
(***************************************************************************)
\* C29: no request sent to audio synthesis carries more than the safe
\* single-request size; longer content reaches the service in chunks.
C29_LongContentChunked ==
    \A k \in 1..Len(requests) : requests[k] <= LARGE_CONTENT_CHARS

(***************************************************************************)
(* Script validation (SpecScript)                                          *)
(***************************************************************************)
\* C30: when generate_section_script has ended after a successful API
\* call, a script the validator has an error for (more than MAX_CHARS
\* characters) has not been returned as a script, and a script with
\* warnings at most (no more than MAX_CHARS characters) has been returned.
C30_ValidatorGate ==
    (returned.call = "generate_section_script" /\ returned.api = "ok"
        /\ returned.value # "pending") =>
        (returned.value = "script" <=> lecture_content <= MAX_CHARS)

(***************************************************************************)
(* Further claims about scripts-to-audio mode (SpecScriptsToAudio)         *)
(***************************************************************************)
\* the script of item i had no audio file when the run started
C31_LackedAudio(i) ==
    /\ <<1, i>> \in script_files
    /\ <<1, i>> \notin audio_files \/ audio_out[i] = "ok"

\* C31: a synthesis call is made only for scripts that had no audio file
\* with their stem, and when the run is over one has been made for every
\* such script; with no such script the run has returned 0 without a call.
C31_MissingOnly ==
    /\ tts_calls \subseteq {i \in Items : C31_LackedAudio(i)}
    /\ pc = "done" =>
          /\ tts_calls = {i \in Items : C31_LackedAudio(i)}
          /\ tts_calls = {} => exit_code = 0

(***************************************************************************)
(* The audio call and the rate limiter (SpecTts)                           *)
(***************************************************************************)
\* C32: every synthesis request sent was preceded by an acquire of a
\* GeminiRateLimiter of its own: as many limiter calls have begun as
\* requests were sent, and the window holds a recorded request.
C32_ThroughLimiter ==
    /\ Len(requests) <= started
    /\ requests # <<>> => request_times # <<>>

(***************************************************************************)
(* Ordering of the stages (SpecScriptWrite)                                *)
(***************************************************************************)
\* C33: (section numbers distinct) when the audio stage turns to an item,
\* the item's entry in the manifest has the status SCRIPT_GENERATED and a
\* script path; an item recorded as failed by the script stage is not
\* processed by the audio stage.
C33_StageOrder ==
    [][(DistinctIds /\ pc = "audio" /\ idx <= Len(section_scripts)
            /\ idx' = idx + 1) =>
          /\ manifest.entries[AudioItem].status = "script_generated"
          /\ manifest.entries[AudioItem].script_path # NoPath]_vars

(***************************************************************************)
(* Per-item updates of the manifest (SpecPipeline)                         *)
(***************************************************************************)
\* C34: (section numbers distinct) in each stage the manifest has been
\* updated for every item the stage has finished before it turns to the
\* next one: in the script stage the entries of the items before the
\* current one carry the script result, and in the audio stage the entries
\* of the items before the current one whose audio exists carry
\* AUDIO_GENERATED.
C34_UpdatedPerItem ==
    DistinctIds =>
        /\ pc = "scripts" =>
              \A i \in 1..(idx - 1) :
                  manifest.entries[i].status \in {"script_generated", "failed"}
        /\ pc = "audio" =>
              \A k \in 1..(idx - 1) :
                  audio_out[section_scripts[k]] \in {"ok", "skipped"} =>
                      manifest.entries[section_scripts[k]].status = "audio_generated"

(***************************************************************************)
(* Pacing of the audio stage (SpecPacing)                                  *)
(***************************************************************************)
\* C35: processing of an item after the first begins no earlier than 31 s
\* after the processing of the item before it ended, whatever that item's
\* result.
C35_SequentialPacing ==
    /\ item_gap # -1 => item_gap >= 31
    /\ (pc = "pace_call" /\ idx > 1) => item_gap # -1

\* the third item is being processed 31 s after the second, whose call
\* failed, ended
C35_Witness ==
    /\ pc = "pace_call" /\ idx = 3 /\ item_gap = 31
    /\ Failed(audio_out[2])

\* C36: any two successive synthesis requests, retries included, are at
\* least 30 s apart.
C36_RequestSpacing ==
    request_gap # -1 => request_gap >= 30

(***************************************************************************)
(* Pacing of the chunk calls (SpecChunks)                                  *)
(***************************************************************************)
\* C37: chunk calls are made one after the other, and when the call for a
\* further chunk is about to start, 2 s have passed since the call before
\* it ended, whether that call returned or raised.
C37_ChunkDelay ==
    (cpc = "process" /\ 0 < Len(synth) /\ Len(synth) < Len(chunks)) =>
        item_gap >= 2

(***************************************************************************)
(* Claims about the retry budget                                           *)
(***************************************************************************)

\* the outcomes with which call_with_backoff can end
C38_Endings == {"value", RATE_LIMIT_EXCEEDED} \cup Errors

C38_Budget ==
    \A t \in Tasks :
        /\ calls[t] <= max_retries + 1
        /\ attempt[t] <= max_retries
        /\ tpc[t] = "done" =>
              /\ result[t] \in C38_Endings
              /\ seen[t] \subseteq {"rate", "server"} =>
                    calls[t] = max_retries + 1

\* a call that is under way
C38_Running(t) == tpc[t] \notin {"idle", "done"}

\* C38: within one call_with_backoff, whatever mix of rate-limit-class and
\* server-class failures the operation shows, it is invoked at most
\* max_retries + 1 times and the call ends with the operation's value or with
\* an error; every call, the first or a later one, has the whole budget: a
\* call that only met retryable failures ends after max_retries + 1
\* invocations, never sooner.
C38_RetryBudget ==
    /\ []C38_Budget
    /\ \A t \in Tasks : C38_Running(t) ~> (tpc[t] = "done")

\* a second call, made after a first one, spends a whole budget on a mix of
\* the two retryable classes
C38_Witness ==
    /\ started = MaxCalls
    /\ tpc[Caller] = "done"
    /\ seen[Caller] = {"rate", "server"}
    /\ calls[Caller] = max_retries + 1
    /\ result[Caller] \in Errors \cup {RATE_LIMIT_EXCEEDED}

(***************************************************************************)
(* Claims about the ids of manifest entries                                *)
(***************************************************************************)
\* C39: the section numbers of the manifest's entries are pairwise distinct,
\* so each item's progress is recorded in its own entry: while the script
\* stage runs, the entry of every item it has finished carries that item's
\* script result.
C39_UniqueIds ==
    manifest.loaded =>
        /\ \A i, j \in 1..Len(manifest.entries) :
              manifest.entries[i].section_number =
                  manifest.entries[j].section_number => i = j
        /\ pc = "scripts" =>
              \A i \in 1..(idx - 1) :
                  manifest.entries[i].status \in {"script_generated", "failed"}

(***************************************************************************)
(* Claims about the content of the chunks (SpecSplit)                      *)
(***************************************************************************)
\* C40: for a non-empty dialogue the chunks split_dialogue_for_tts returns,
\* concatenated in order, are exactly the lines of the dialogue, and no
\* chunk is empty; also when a chunk was closed at a natural boundary and
\* the lines after it were carried over into the next chunk.
C40_SplitPreservesContent ==
    (split_pc = "split" /\ dialogue_lines # <<>>) =>
        /\ Concat(chunks) = dialogue_lines
        /\ \A k \in 1..Len(chunks) : chunks[k] # <<>>

\* a dialogue of lines that differ from one another was cut at a natural
\* boundary, with a line carried over, and at a size limit
C40_Witness ==
    /\ split_pc = "split"
    /\ natural_splits > 0
    /\ Len(chunks) >= 3
    /\ Len(chunks[2]) >= 2
    /\ \A i, j \in 1..Len(dialogue_lines) :
          dialogue_lines[i] = dialogue_lines[j] => i = j

====
